---- MODULE Spec2Model ----
(***************************************************************************)
(* Model of go-vcsfetch: the reference resolver (internal/git pickRef),   *)
(* the repository engine (internal/git Repository.Fetch) and the Fetcher   *)
(* facade (Fetcher.FetchLocator).                                          *)
(*                                                                         *)
(* Go strings are sequences of one-character strings, so that parsing,     *)
(* prefix stripping and comparison are computed, not assumed.              *)
(***************************************************************************)
EXTENDS Integers, Sequences, FiniteSets, TLC

\* ------------------------------------------------------------------------
\* Bounds
\* ------------------------------------------------------------------------

\* the largest number of references in one advertisement
MaxRefs == 3

\* the largest number of concurrent calls on one Fetcher
MaxCalls == 2

\* the largest number of method calls on one Cloner, or on one locator
MaxOps == 3

\* ------------------------------------------------------------------------
\* Strings
\* ------------------------------------------------------------------------

\* the characters in ASCII order (used for lexical comparison)
Alphabet ==
  << "#", "+", "-", ".", "/",
     "0", "1", "2", "3", "4", "5", "6", "7", "8", "9", ":", "?", "@",
     "A", "B", "C", "D", "E", "F", "G", "H", "I", "J", "K", "L", "M",
     "N", "O", "P", "Q", "R", "S", "T", "U", "V", "W", "X", "Y", "Z",
     "a", "b", "c", "d", "e", "f", "g", "h", "i", "j", "k", "l", "m",
     "n", "o", "p", "q", "r", "s", "t", "u", "v", "w", "x", "y", "z" >>

CharOrd(c) == CHOOSE i \in 1..Len(Alphabet) : Alphabet[i] = c

\* a local variable: e is evaluated once and F is applied to its value
Bind(e, F(_)) == CHOOSE r \in {F(x) : x \in {e}} : TRUE

numbers == {"0", "1", "2", "3", "4", "5", "6", "7", "8", "9"}

alphanum == ({Alphabet[i] : i \in 6..Len(Alphabet)} \ {":", "?", "@"}) \cup {"-"}

HasPrefix(s, p) == Len(s) >= Len(p) /\ SubSeq(s, 1, Len(p)) = p

TrimPrefix(s, p) == IF HasPrefix(s, p) THEN SubSeq(s, Len(p) + 1, Len(s)) ELSE s

\* strings.Count(s, c) for a one-character c
Count(s, c) == Cardinality({i \in 1..Len(s) : s[i] = c})

\* strings.IndexRune, 1-based; 0 when absent
IndexRune(s, c) ==
  IF \E i \in 1..Len(s) : s[i] = c
  THEN CHOOSE i \in 1..Len(s) : s[i] = c /\ \A j \in 1..(i - 1) : s[j] # c
  ELSE 0

containsOnly(s, set) == \A i \in 1..Len(s) : s[i] \in set

hasLeadingZeroes(s) == Len(s) > 1 /\ s[1] = "0"

RECURSIVE Split(_, _)
\* strings.Split(s, c) for a one-character separator
Split(s, c) ==
  Bind(IndexRune(s, c), LAMBDA i :
    IF i = 0 THEN <<s>>
    ELSE Bind(SubSeq(s, i + 1, Len(s)), LAMBDA rest : <<SubSeq(s, 1, i - 1)>> \o Split(rest, c)))

\* strings.SplitN(s, ".", 3)
SplitN3(s) ==
  Bind(IndexRune(s, "."), LAMBDA i :
    IF i = 0 THEN <<s>>
    ELSE Bind(SubSeq(s, i + 1, Len(s)), LAMBDA rest :
         Bind(IndexRune(rest, "."), LAMBDA j :
           IF j = 0 THEN <<SubSeq(s, 1, i - 1), rest>>
           ELSE <<SubSeq(s, 1, i - 1), SubSeq(rest, 1, j - 1), SubSeq(rest, j + 1, Len(rest))>>)))

RECURSIVE TrimLeftZero(_)
TrimLeftZero(s) ==
  IF Len(s) > 0 /\ s[1] = "0" THEN Bind(Tail(s), LAMBDA rest : TrimLeftZero(rest)) ELSE s

RECURSIVE ParseUint(_)
\* strconv.ParseUint on a non-empty string of digits
ParseUint(s) ==
  IF Len(s) = 0 THEN 0
  ELSE Bind(SubSeq(s, 1, Len(s) - 1), LAMBDA front : 10 * ParseUint(front) + (CharOrd(s[Len(s)]) - CharOrd("0")))

RECURSIVE StrCompare(_, _)
\* lexical comparison of two strings: -1, 0, 1
StrCompare(a, b) ==
  IF Len(a) = 0 /\ Len(b) = 0 THEN 0
  ELSE IF Len(a) = 0 THEN -1
  ELSE IF Len(b) = 0 THEN 1
  ELSE IF CharOrd(a[1]) < CharOrd(b[1]) THEN -1
  ELSE IF CharOrd(a[1]) > CharOrd(b[1]) THEN 1
  ELSE Bind(<<Tail(a), Tail(b)>>, LAMBDA rest : StrCompare(rest[1], rest[2]))

\* ------------------------------------------------------------------------
\* Semantic versions (github.com/blang/semver/v4, as used by pickRef)
\* ------------------------------------------------------------------------

ZeroVersion == [Major |-> 0, Minor |-> 0, Patch |-> 0, Pre |-> <<>>, Build |-> <<>>]

\* semver.NewPRVersion: one pre-release identifier
NewPRVersion(s) ==
  IF Len(s) = 0 THEN [ok |-> FALSE, pr |-> [IsNum |-> FALSE, Num |-> 0, Str |-> <<>>]]
  ELSE IF containsOnly(s, numbers)
       THEN [ok |-> ~hasLeadingZeroes(s), pr |-> [IsNum |-> TRUE, Num |-> ParseUint(s), Str |-> <<>>]]
       ELSE [ok |-> containsOnly(s, alphanum), pr |-> [IsNum |-> FALSE, Num |-> 0, Str |-> s]]

\* semver.Parse on the three parts major, minor, patch[-pre][+build]
Parse(parts) ==
  IF Len(parts) # 3 THEN [ok |-> FALSE, v |-> ZeroVersion]
  ELSE
  Bind(parts[3], LAMBDA patchAll :
  Bind(IndexRune(patchAll, "+"), LAMBDA bi :
  Bind(IF bi = 0 THEN <<>> ELSE Split(SubSeq(patchAll, bi + 1, Len(patchAll)), "."), LAMBDA build :
  Bind(IF bi = 0 THEN patchAll ELSE SubSeq(patchAll, 1, bi - 1), LAMBDA patchPre :
  Bind(IndexRune(patchPre, "-"), LAMBDA pi :
  Bind(IF pi = 0 THEN <<>> ELSE Split(SubSeq(patchPre, pi + 1, Len(patchPre)), "."), LAMBDA pre :
  Bind(IF pi = 0 THEN patchPre ELSE SubSeq(patchPre, 1, pi - 1), LAMBDA patchStr :
  Bind([i \in 1..Len(pre) |-> NewPRVersion(pre[i])], LAMBDA prs :
    LET numOK(p) == Len(p) > 0 /\ containsOnly(p, numbers) /\ ~hasLeadingZeroes(p)
        ok == /\ numOK(parts[1]) /\ numOK(parts[2]) /\ numOK(patchStr)
              /\ \A i \in 1..Len(prs) : prs[i].ok
              /\ \A i \in 1..Len(build) : Len(build[i]) > 0 /\ containsOnly(build[i], alphanum)
    IN  IF ~ok THEN [ok |-> FALSE, v |-> ZeroVersion]
        ELSE [ok |-> TRUE,
              v |-> [Major |-> ParseUint(parts[1]), Minor |-> ParseUint(parts[2]),
                     Patch |-> ParseUint(patchStr),
                     Pre |-> [i \in 1..Len(prs) |-> prs[i].pr],
                     Build |-> build]]))))))))

\* semver.ParseTolerant: strips a leading "v", strips leading zeroes, completes
\* a short version with ".0" (a short version cannot carry "-" or "+")
ParseTolerant(str) ==
  LET fix(p) == IF Len(p) > 1
                THEN Bind(TrimLeftZero(p), LAMBDA t :
                       IF Len(t) = 0 \/ t[1] \notin numbers THEN <<"0">> \o t ELSE t)
                ELSE p
  IN  Bind(TrimPrefix(str, <<"v">>), LAMBDA s :
      Bind(SplitN3(s), LAMBDA parts0 :
      Bind([i \in 1..Len(parts0) |-> fix(parts0[i])], LAMBDA parts1 :
      Bind(IF Len(parts1) = 1 THEN parts1 \o <<(<<"0">>), (<<"0">>)>>
           ELSE IF Len(parts1) = 2 THEN parts1 \o <<(<<"0">>)>>
           ELSE parts1, LAMBDA parts :
        IF Len(parts1) < 3 /\ (\E i \in 1..Len(parts1[Len(parts1)]) : parts1[Len(parts1)][i] \in {"+", "-"})
        THEN [ok |-> FALSE, v |-> ZeroVersion]
        ELSE Parse(parts)))))

\* PRVersion.Compare
PRCompare(a, b) ==
  IF a.IsNum /\ ~b.IsNum THEN -1
  ELSE IF ~a.IsNum /\ b.IsNum THEN 1
  ELSE IF a.IsNum /\ b.IsNum
       THEN (IF a.Num = b.Num THEN 0 ELSE IF a.Num > b.Num THEN 1 ELSE -1)
       ELSE StrCompare(a.Str, b.Str)

RECURSIVE PreCompare(_, _)
\* the pre-release part of Version.Compare, both lists non-empty at the start
PreCompare(a, b) ==
  IF Len(a) = 0 /\ Len(b) = 0 THEN 0
  ELSE IF Len(a) = 0 THEN -1
  ELSE IF Len(b) = 0 THEN 1
  ELSE Bind(PRCompare(a[1], b[1]), LAMBDA c :
         IF c # 0 THEN c
         ELSE Bind(<<Tail(a), Tail(b)>>, LAMBDA rest : PreCompare(rest[1], rest[2])))

\* Version.Compare: -1, 0, 1 (build metadata is ignored)
Compare(v, o) ==
  IF v.Major # o.Major THEN (IF v.Major > o.Major THEN 1 ELSE -1)
  ELSE IF v.Minor # o.Minor THEN (IF v.Minor > o.Minor THEN 1 ELSE -1)
  ELSE IF v.Patch # o.Patch THEN (IF v.Patch > o.Patch THEN 1 ELSE -1)
  ELSE IF Len(v.Pre) = 0 /\ Len(o.Pre) = 0 THEN 0
  ELSE IF Len(v.Pre) = 0 THEN 1
  ELSE IF Len(o.Pre) = 0 THEN -1
  ELSE PreCompare(v.Pre, o.Pre)

GE(v, o) == Compare(v, o) >= 0

IncrementPatch(v) == [v EXCEPT !.Patch = v.Patch + 1]

IncrementMinor(v) == [v EXCEPT !.Minor = v.Minor + 1, !.Patch = 0]

IncrementMajor(v) == [v EXCEPT !.Major = v.Major + 1, !.Minor = 0, !.Patch = 0]

\* ------------------------------------------------------------------------
\* Reference names (go-git plumbing.ReferenceName, as used by filterRef)
\* ------------------------------------------------------------------------

HEAD == <<"H", "E", "A", "D">>

refPrefix == <<"r", "e", "f", "s", "/">>

refHeadPrefix == refPrefix \o <<"h", "e", "a", "d", "s", "/">>

refTagPrefix == refPrefix \o <<"t", "a", "g", "s", "/">>

IsBranch(name) == HasPrefix(name, refHeadPrefix)

IsTag(name) == HasPrefix(name, refTagPrefix)

\* ReferenceName.Short: the rev-parse rules are tried in turn, the last one
\* that matches a non-empty remainder wins
Short(name) ==
  LET strip(res, p) == IF HasPrefix(name, p) /\ Len(name) > Len(p) THEN TrimPrefix(name, p) ELSE res
  IN  Bind(strip(name, refPrefix), LAMBDA r1 :
      Bind(strip(r1, refTagPrefix), LAMBDA r2 :
      Bind(strip(r2, refHeadPrefix), LAMBDA r3 : strip(r3, refPrefix \o <<"r", "e", "m", "o", "t", "e", "s", "/">>))))

\* ------------------------------------------------------------------------
\* Reference resolution (internal/git: pickRef, filterRef, latestSemver)
\* ------------------------------------------------------------------------

NoRef == [Reference |-> [Type |-> "InvalidReference", Name |-> <<>>, Hash |-> 0],
          ShortName |-> <<>>, IsTag |-> FALSE, IsSemver |-> FALSE, Version |-> ZeroVersion]

getVersionUpperBound(desiredVersion, desiredSemverLevel) ==
  Bind([desiredVersion EXCEPT !.Pre = <<>>, !.Build = <<>>], LAMBDA finalized :
    LET allowPrereleases == GE(desiredVersion, finalized)
        versionUpperBound ==
          CASE desiredSemverLevel = 3 -> IncrementPatch(finalized)
            [] desiredSemverLevel = 2 -> IncrementMinor(finalized)
            [] desiredSemverLevel = 1 -> IncrementMajor(finalized)
            [] OTHER -> finalized
    IN  [bound |-> versionUpperBound, allow |-> allowPrereleases])

\* filterRef without the rule that a semver ref string only matches tags
filterRefBranchesKept(filter, rf) ==
  Bind(rf.Name, LAMBDA name :
  Bind(IsTag(name), LAMBDA isTag :
  Bind(Short(name), LAMBDA short :
  Bind(ParseTolerant(short), LAMBDA parsed :
  Bind([Reference |-> rf, ShortName |-> short, IsTag |-> isTag,
        IsSemver |-> isTag /\ parsed.ok,
        Version |-> IF isTag /\ parsed.ok THEN parsed.v ELSE ZeroVersion], LAMBDA localRef :
  LET rejected ==
        \/ rf.Type # "HashReference" /\ rf.Type # "SymbolicReference"
        \/ ~IsBranch(name) /\ ~isTag /\ name # HEAD
        \/ (filter.ref = <<>> \/ filter.ref = HEAD) /\ name # HEAD
        \/ (filter.resolveExactTag \/ ~filter.isDesiredSemver) /\ short # filter.ref
        \/ /\ ~filter.resolveExactTag /\ filter.isDesiredSemver
           /\ \/ ~localRef.IsSemver
              \/ ~filter.allowPrereleases /\ Len(localRef.Version.Pre) > 0
              \/ GE(localRef.Version, filter.versionUpperBound)
  IN  [localRef |-> localRef, retained |-> ~rejected])))))

\* filterRef without the comparison of the short name with a semver ref
\* string when tags are resolved exactly
filterRefExactUnchecked(filter, rf) ==
  Bind(rf.Name, LAMBDA name :
  Bind(IsTag(name), LAMBDA isTag :
  Bind(Short(name), LAMBDA short :
  Bind(ParseTolerant(short), LAMBDA parsed :
  Bind([Reference |-> rf, ShortName |-> short, IsTag |-> isTag,
        IsSemver |-> isTag /\ parsed.ok,
        Version |-> IF isTag /\ parsed.ok THEN parsed.v ELSE ZeroVersion], LAMBDA localRef :
  LET rejected ==
        \/ rf.Type # "HashReference" /\ rf.Type # "SymbolicReference"
        \/ ~IsBranch(name) /\ ~isTag /\ name # HEAD
        \/ (filter.ref = <<>> \/ filter.ref = HEAD) /\ name # HEAD
        \/ filter.isDesiredSemver /\ ~isTag
        \/ ~filter.isDesiredSemver /\ short # filter.ref
        \/ /\ ~filter.resolveExactTag /\ filter.isDesiredSemver
           /\ \/ ~localRef.IsSemver
              \/ ~filter.allowPrereleases /\ Len(localRef.Version.Pre) > 0
              \/ GE(localRef.Version, filter.versionUpperBound)
  IN  [localRef |-> localRef, retained |-> ~rejected])))))

filterRef(filter, rf) ==
  Bind(rf.Name, LAMBDA name :
  Bind(IsTag(name), LAMBDA isTag :
  Bind(Short(name), LAMBDA short :
  Bind(ParseTolerant(short), LAMBDA parsed :
  Bind([Reference |-> rf, ShortName |-> short, IsTag |-> isTag,
        IsSemver |-> isTag /\ parsed.ok,
        Version |-> IF isTag /\ parsed.ok THEN parsed.v ELSE ZeroVersion], LAMBDA localRef :
  LET rejected ==
        \/ rf.Type # "HashReference" /\ rf.Type # "SymbolicReference"
        \/ ~IsBranch(name) /\ ~isTag /\ name # HEAD
        \/ (filter.ref = <<>> \/ filter.ref = HEAD) /\ name # HEAD
        \/ filter.isDesiredSemver /\ ~isTag
        \/ (filter.resolveExactTag \/ ~filter.isDesiredSemver) /\ short # filter.ref
        \/ /\ ~filter.resolveExactTag /\ filter.isDesiredSemver
           /\ \/ ~localRef.IsSemver
              \/ ~filter.allowPrereleases /\ Len(localRef.Version.Pre) > 0
              \/ GE(localRef.Version, filter.versionUpperBound)
  IN  [localRef |-> localRef, retained |-> ~rejected])))))

RECURSIVE insertSorted(_, _)
\* one pass of the insertion sort of sort.Slice (slices shorter than 12):
\* x moves left while it is greater than its left neighbour
insertSorted(sorted, x) ==
  IF Len(sorted) = 0 THEN <<x>>
  ELSE Bind(sorted[Len(sorted)], LAMBDA last :
         IF Compare(x.Version, last.Version) = 1
         THEN Bind(SubSeq(sorted, 1, Len(sorted) - 1), LAMBDA front : insertSorted(front, x) \o <<last>>)
         ELSE sorted \o <<x>>)

RECURSIVE sortDescending(_, _)
sortDescending(sorted, rest) ==
  IF Len(rest) = 0 THEN sorted
  ELSE Bind(<<insertSorted(sorted, rest[1]), Tail(rest)>>, LAMBDA next : sortDescending(next[1], next[2]))

latestSemver(refs) ==
  Bind(SelectSeq(refs, LAMBDA rf : rf.IsSemver), LAMBDA eligibleTags :
    IF Len(eligibleTags) = 0
    THEN [ok |-> FALSE, err |-> "no tag did match", ref |-> NoRef]
    ELSE [ok |-> TRUE, err |-> "", ref |-> sortDescending(<<>>, eligibleTags)[1]])

RECURSIVE pickLoop(_, _, _, _)
\* the loop of pickRef over allRefs from index i: the retained references and,
\* when the loop stopped at the first of them, the selected one
pickLoop(ctx, allRefs, i, refs) ==
  IF i > Len(allRefs) THEN [refs |-> refs, selected |-> FALSE]
  ELSE Bind(filterRef(ctx, allRefs[i]), LAMBDA f :
         IF ~f.retained THEN pickLoop(ctx, allRefs, i + 1, refs)
         ELSE IF ctx.ref = <<>> \/ ctx.ref = HEAD \/ ctx.resolveExactTag
              THEN [refs |-> refs \o <<f.localRef>>, selected |-> TRUE]
              ELSE Bind(refs \o <<f.localRef>>, LAMBDA kept : pickLoop(ctx, allRefs, i + 1, kept)))

\* pickRef returning the first of several references that match a ref string
\* which is no version
pickRefFirstOfMany(allRefs, ref, opts) ==
  Bind(ParseTolerant(ref), LAMBDA parsed :
  Bind(parsed.ok, LAMBDA isDesiredSemver :
  Bind((IF Count(ref, ".") < 2 THEN Count(ref, ".") ELSE 2) + 1, LAMBDA desiredSemverLevel :
  Bind(getVersionUpperBound(parsed.v, desiredSemverLevel), LAMBDA ub :
  Bind([ref |-> ref,
        resolveExactTag |-> opts.ResolveExactTag,
        isDesiredSemver |-> isDesiredSemver,
        allowPrereleases |-> opts.AllowPreReleases \/ (isDesiredSemver /\ ub.allow),
        versionUpperBound |-> IF isDesiredSemver THEN ub.bound ELSE ZeroVersion], LAMBDA ctx :
  Bind(pickLoop(ctx, allRefs, 1, <<>>), LAMBDA loop :
    IF Len(loop.refs) = 0
    THEN [ok |-> FALSE, err |-> "could not resolve any remote reference", ref |-> NoRef]
    ELSE IF loop.selected
    THEN [ok |-> TRUE, err |-> "", ref |-> loop.refs[Len(loop.refs)]]
    ELSE IF Len(loop.refs) = 1
    THEN [ok |-> TRUE, err |-> "", ref |-> loop.refs[1]]
    ELSE IF ~isDesiredSemver
    THEN [ok |-> TRUE, err |-> "", ref |-> loop.refs[1]]
    ELSE latestSemver(loop.refs)))))))

pickRef(allRefs, ref, opts) ==
  Bind(ParseTolerant(ref), LAMBDA parsed :
  Bind(parsed.ok, LAMBDA isDesiredSemver :
  Bind((IF Count(ref, ".") < 2 THEN Count(ref, ".") ELSE 2) + 1, LAMBDA desiredSemverLevel :
  Bind(getVersionUpperBound(parsed.v, desiredSemverLevel), LAMBDA ub :
  Bind([ref |-> ref,
        resolveExactTag |-> opts.ResolveExactTag,
        isDesiredSemver |-> isDesiredSemver,
        allowPrereleases |-> opts.AllowPreReleases \/ (isDesiredSemver /\ ub.allow),
        versionUpperBound |-> IF isDesiredSemver THEN ub.bound ELSE ZeroVersion], LAMBDA ctx :
  Bind(pickLoop(ctx, allRefs, 1, <<>>), LAMBDA loop :
    IF Len(loop.refs) = 0
    THEN [ok |-> FALSE, err |-> "could not resolve any remote reference", ref |-> NoRef]
    ELSE IF loop.selected
    THEN [ok |-> TRUE, err |-> "", ref |-> loop.refs[Len(loop.refs)]]
    ELSE IF Len(loop.refs) = 1
    THEN [ok |-> TRUE, err |-> "", ref |-> loop.refs[1]]
    ELSE IF ~isDesiredSemver
    THEN [ok |-> FALSE, err |-> "ref spec resolved ambiguously", ref |-> NoRef]
    ELSE latestSemver(loop.refs)))))))

\* ------------------------------------------------------------------------
\* Inputs of the reference resolver
\* ------------------------------------------------------------------------

\* the references a remote may advertise: the symbolic HEAD, branches, tags
\* (complete, short, pre-release and non-semver names) and another kind of
\* reference; the hash of a reference is its position in the pool
RefPool ==
  <<
     [Type |-> "SymbolicReference", Hash |-> 1,
      Name |-> <<"H", "E", "A", "D">>],
     [Type |-> "HashReference", Hash |-> 2,
      Name |-> <<"r", "e", "f", "s", "/", "h", "e", "a", "d", "s", "/", "m", "a", "i", "n">>],
     [Type |-> "HashReference", Hash |-> 3,
      Name |-> <<"r", "e", "f", "s", "/", "h", "e", "a", "d", "s", "/", "v", "1">>],
     [Type |-> "HashReference", Hash |-> 4,
      Name |-> <<"r", "e", "f", "s", "/", "t", "a", "g", "s", "/", "v", "1", ".", "0", ".", "0">>],
     [Type |-> "HashReference", Hash |-> 5,
      Name |-> <<"r", "e", "f", "s", "/", "t", "a", "g", "s", "/", "v", "1", ".", "2", ".", "1">>],
     [Type |-> "HashReference", Hash |-> 6,
      Name |-> <<"r", "e", "f", "s", "/", "t", "a", "g", "s", "/", "1", ".", "2", ".", "1">>],
     [Type |-> "HashReference", Hash |-> 7,
      Name |-> <<"r", "e", "f", "s", "/", "t", "a", "g", "s", "/", "v", "1", ".", "3", ".", "0", "-", "r", "c", "1">>],
     [Type |-> "HashReference", Hash |-> 8,
      Name |-> <<"r", "e", "f", "s", "/", "t", "a", "g", "s", "/", "v", "2", ".", "0", ".", "0">>],
     [Type |-> "HashReference", Hash |-> 9,
      Name |-> <<"r", "e", "f", "s", "/", "t", "a", "g", "s", "/", "v", "2", ".", "0", ".", "0", "-", "r", "c", "1">>],
     [Type |-> "HashReference", Hash |-> 10,
      Name |-> <<"r", "e", "f", "s", "/", "t", "a", "g", "s", "/", "v", "1">>],
     [Type |-> "HashReference", Hash |-> 11,
      Name |-> <<"r", "e", "f", "s", "/", "t", "a", "g", "s", "/", "m", "a", "i", "n">>],
     [Type |-> "HashReference", Hash |-> 12,
      Name |-> <<"r", "e", "f", "s", "/", "t", "a", "g", "s", "/", "l", "a", "t", "e", "s", "t">>],
     [Type |-> "HashReference", Hash |-> 13,
      Name |-> <<"r", "e", "f", "s", "/", "n", "o", "t", "e", "s", "/", "c", "o", "m", "m", "i", "t", "s">>] >>

\* the ref strings a caller may ask for: empty, HEAD, a branch, a plain tag,
\* short and complete versions, a version with a pre-release suffix
RefSpecs ==
  {
   <<>>,
   <<"H", "E", "A", "D">>,
   <<"m", "a", "i", "n">>,
   <<"l", "a", "t", "e", "s", "t">>,
   <<"v", "1">>,
   <<"v", "1", ".", "2">>,
   <<"v", "1", ".", "2", ".", "1">>,
   <<"v", "1", ".", "3">>,
   <<"v", "2">>,
   <<"v", "2", ".", "0", ".", "0">>,
   <<"v", "2", ".", "0", ".", "0", "-", "r", "c", "1">>,
   <<"v", "2", ".", "3", ".", "4">> }

RECURSIVE seqOfIndices(_, _)
\* the references of the pool at the indices in idx, in ascending pool order
seqOfIndices(idx, from) ==
  IF from > Len(RefPool) THEN <<>>
  ELSE (IF from \in idx THEN <<RefPool[from]>> ELSE <<>>) \o seqOfIndices(idx, from + 1)

\* an advertisement holds at most MaxRefs references with distinct names, in
\* either order
Advertisements ==
  LET sets == {idx \in SUBSET (1..Len(RefPool)) : Cardinality(idx) <= MaxRefs}
  IN  {seqOfIndices(idx, 1) : idx \in sets} \cup {[i \in 1..Cardinality(idx) |-> seqOfIndices(idx, 1)[Cardinality(idx) + 1 - i]] : idx \in sets}

\* git.Options
GitOptions == [ResolveExactTag : BOOLEAN, AllowPreReleases : BOOLEAN, GitSkipAutoDetect : BOOLEAN]

NotResolved == [done |-> FALSE, ok |-> FALSE, err |-> "", ref |-> NoRef]

\* ------------------------------------------------------------------------
\* State
\* ------------------------------------------------------------------------

VARIABLES
  advertised,    \* the references advertised by the remote (remote.List)
  refSpec,       \* the ref string handed to the resolver
  gitOptions,    \* the git.Options of the Repository
  resolved,      \* the outcome of selectRef / pickRef
  fetchOptions,  \* the options of the Fetcher
  locator,       \* the locator of the fetch
  pc,            \* the position of the fetch
  sink,          \* the bytes received by the caller's writer
  result,        \* the value returned by FetchLocator
  trace,         \* the steps of the fetch that acted, in order
  backing,       \* gitOptions.isFSBacked and gitOptions.dir of the handle
  disk,          \* the directories on disk that a handle may be backed by
  calls,         \* the concurrent calls on one Fetcher: position, sink, error
  cloner,        \* the fields of the Cloner: clonedURL, clonedFS
  input,         \* the URL string handed to a method that takes one
  parsed,        \* the outcome of the locator parser
  held,          \* the locator that the parser returned, as it is now
  native         \* one run of nativeExtractGitArchive: the caller, the git child, the pipes

extVars == <<backing, disk, calls, cloner, input, parsed, held, native>>

vars == <<advertised, refSpec, gitOptions, resolved, fetchOptions, locator, pc, sink, result, trace, extVars>>

fetchVars == <<fetchOptions, locator, pc, sink, result, trace>>

NoLocator == [Scheme |-> <<>>, Host |-> <<>>, RepoPath |-> <<>>, Version |-> <<>>, Path |-> <<>>]

NoFetchOptions ==
  [requireVersion |-> FALSE, resolveExactTag |-> FALSE, allowPrereleases |-> FALSE,
   gitSkipAutodetect |-> FALSE]

\* wraps: whether errors.Is(err, ErrVCS) holds for the returned error
NotReturned == [returned |-> FALSE, err |-> "", panic |-> FALSE, wraps |-> FALSE]

\* the calls on the Fetcher
Calls == 1..MaxCalls

\* the directories on disk: the one a caller supplies, the one os.MkdirTemp
\* creates
callerDir == "/data/clone"

tempDir == "/tmp/vcsclone"

\* a directory: whether it exists, the calls whose git objects it stores, the
\* file checked out in it (empty when there is none), and whether the handle
\* has removed it at some point
NoDir == [exists |-> FALSE, objects |-> {}, file |-> <<>>, removed |-> FALSE]

\* the disk before a handle is built: the caller's directory exists
InitialDisk == [d \in {callerDir, tempDir} |-> IF d = callerDir THEN [NoDir EXCEPT !.exists = TRUE] ELSE NoDir]

NoCall == [pc |-> "idle", sink |-> <<>>, err |-> "", objects |-> FALSE, file |-> <<>>]

\* no handle with a backing directory and no concurrent call
BackingIdle ==
  /\ backing = [isFSBacked |-> FALSE, dir |-> ""]
  /\ disk = InitialDisk
  /\ calls = [c \in Calls |-> NoCall]

\* a url.URL: scheme, user (url.Userinfo, which may be nil), host, path and
\* fragment
NoURL == [Scheme |-> <<>>, HasUser |-> FALSE, User |-> <<>>, Host |-> <<>>, Path |-> <<>>, Fragment |-> <<>>]

\* a locator that was not built
NoLocatorObject ==
  [kind |-> "none", Tool |-> <<>>, Transport |-> <<>>, HasUser |-> FALSE, User |-> <<>>,
   Host |-> <<>>, RepoPath |-> <<>>, Ref |-> <<>>, SubPath |-> <<>>, repo |-> NoURL]

ClonerIdle == cloner = [hasURL |-> FALSE, clonedURL |-> NoURL, clonedFS |-> "nil"]

\* no run of nativeExtractGitArchive. pc is the position of the caller; child
\* the state of the git child; out and errout the chunks the child has yet to
\* write to its stdout and to its stderr; stdout and stderr the chunks held
\* by the two pipes; err the named result, as the set of the errors joined in
\* it; loopErr the err variable of the tar loop; b whether the buffer of the
\* deferred function holds stderr text; sunk the chunks written to the sink
NoNative ==
  [pc |-> "idle", child |-> "none", status |-> "", out |-> 0, errout |-> 0,
   stdout |-> 0, stderr |-> 0, err |-> {}, loopErr |-> "", b |-> FALSE, sunk |-> 0,
   cancelled |-> FALSE, started |-> 0]

\* no parser has run
NotParsed == [done |-> FALSE, by |-> "", requireVersion |-> FALSE,
              ok |-> FALSE, err |-> "", panic |-> FALSE, locator |-> NoLocatorObject]

LocatorIdle ==
  /\ input = <<>>
  /\ parsed = NotParsed
  /\ held = NoLocatorObject

\* ------------------------------------------------------------------------
\* The resolver on its own: pickRef applied to every advertisement, ref
\* string and option set
\* ------------------------------------------------------------------------

InitResolve ==
  /\ advertised \in Advertisements
  /\ refSpec \in RefSpecs
  /\ gitOptions \in {o \in GitOptions : ~o.GitSkipAutoDetect}
  /\ resolved = NotResolved
  /\ fetchOptions = NoFetchOptions
  /\ locator = NoLocator
  /\ pc = "resolver"
  /\ sink = <<>>
  /\ result = NotReturned
  /\ trace = <<>>
  /\ BackingIdle
  /\ ClonerIdle
  /\ native = NoNative
  /\ LocatorIdle

\* pickRef(allRefs, ref, opts)
PickRef ==
  /\ pc = "resolver"
  /\ ~resolved.done
  /\ resolved' = [done |-> TRUE] @@ pickRef(advertised, refSpec, gitOptions)
  /\ UNCHANGED <<advertised, refSpec, gitOptions, fetchVars, extVars>>

NextResolve == PickRef

SpecResolve == InitResolve /\ [][NextResolve]_vars

\* ------------------------------------------------------------------------
\* URLs and raw-content short-circuit (internal/download, internal/giturl)
\* ------------------------------------------------------------------------

RECURSIVE Contains(_, _)
\* strings.Contains
Contains(s, sub) ==
  IF Len(s) < Len(sub) THEN FALSE
  ELSE HasPrefix(s, sub) \/ Bind(Tail(s), LAMBDA rest : Contains(rest, sub))

\* strings.CutSuffix, the string only
CutSuffix(s, p) ==
  IF Len(s) >= Len(p) /\ SubSeq(s, Len(s) - Len(p) + 1, Len(s)) = p THEN SubSeq(s, 1, Len(s) - Len(p)) ELSE s

ToLower(s) ==
  [i \in 1..Len(s) |->
     IF CharOrd(s[i]) >= CharOrd("A") /\ CharOrd(s[i]) <= CharOrd("Z") THEN Alphabet[CharOrd(s[i]) + 26] ELSE s[i]]

RECURSIVE TrimSlashes(_)
\* strings.Trim(s, "/")
TrimSlashes(s) ==
  IF Len(s) > 0 /\ s[1] = "/" THEN Bind(Tail(s), LAMBDA rest : TrimSlashes(rest))
  ELSE IF Len(s) > 0 /\ s[Len(s)] = "/" THEN Bind(SubSeq(s, 1, Len(s) - 1), LAMBDA front : TrimSlashes(front))
  ELSE s

\* url.URL.Hostname and url.URL.Port for a host[:port]
Hostname(host) == LET i == IndexRune(host, ":") IN IF i = 0 THEN host ELSE SubSeq(host, 1, i - 1)

Port(host) == LET i == IndexRune(host, ":") IN IF i = 0 THEN <<>> ELSE SubSeq(host, i + 1, Len(host))

sHTTP == <<"h", "t", "t", "p">>

sHTTPS == <<"h", "t", "t", "p", "s">>

sSSH == <<"s", "s", "h">>

sGitPlus == <<"g", "i", "t", "+">>

sPlusGit == <<"+", "g", "i", "t">>

sGithub == <<"g", "i", "t", "h", "u", "b">>

sGitlab == <<"g", "i", "t", "l", "a", "b">>

sAzure == <<"a", "z", "u", "r", "e">>

sBitbucket == <<"b", "i", "t", "b", "u", "c", "k", "e", "t">>

sGitea == <<"g", "i", "t", "e", "a">>

defaultHost == <<"g", "i", "t", "h", "u", "b", ".", "c", "o", "m">>

rawHost == <<"r", "a", "w", ".", "g", "i", "t", "h", "u", "b", "u", "s", "e", "r", "c", "o", "n", "t", "e", "n", "t", ".", "c", "o", "m">>

\* locator.RepoURL(): the repository URL of a locator
RepoURL(loc) == [Scheme |-> loc.Scheme, Host |-> loc.Host, Path |-> loc.RepoPath]


\* download.Supported
Supported(u) == TrimPrefix(u.Scheme, sGitPlus) \in {sHTTP, sHTTPS}

\* github.Parse applied to a URL: whether it returns no error
githubParseOK(u) ==
  Bind(ToLower(IF Hostname(u.Host) = <<>> THEN defaultHost ELSE u.Host), LAMBDA host :
  Bind(Split(TrimSlashes(u.Path), "/"), LAMBDA parts :
  LET isRaw == HasPrefix(host, <<"r", "a", "w">>)
      rest == SubSeq(parts, 3, Len(parts))
      kind == ToLower(rest[1])
      sRefs == <<"r", "e", "f", "s">>
      sBlob == <<"b", "l", "o", "b">>
      sTree == <<"t", "r", "e", "e">>
  IN  IF Len(parts) < 2 THEN FALSE
      ELSE IF Len(parts) = 2 THEN ~isRaw
      ELSE IF isRaw
           THEN (IF kind = sRefs THEN Len(rest) > 3
                 ELSE IF kind \in {sBlob, sTree} THEN FALSE
                 ELSE Len(rest) > 1)
           ELSE /\ Len(rest) >= 2
                /\ kind \in {sBlob, sTree}
                /\ (Len(rest) = 2 => kind = sTree)))

\* giturl.AutoDetect on the repository URL: the provider, or a panic, or an
\* error
AutoDetect(u) ==
  Bind(ToLower(u.Host), LAMBDA host :
    IF Contains(host, sGithub) THEN [panic |-> FALSE, ok |-> githubParseOK(u), provider |-> "github"]
    ELSE IF Contains(host, sGitlab) THEN [panic |-> FALSE, ok |-> githubParseOK(u), provider |-> "gitlab"]
    ELSE IF Contains(host, sAzure) \/ Contains(host, sBitbucket) \/ Contains(host, sGitea)
         THEN [panic |-> TRUE, ok |-> FALSE, provider |-> "unknown"]
    ELSE [panic |-> FALSE, ok |-> FALSE, provider |-> "unknown"])

\* github.Raw: whether a raw-content URL is returned, and its scheme
githubRaw(loc) ==
  LET repo == RepoURL(loc)
      pth == TrimSlashes(loc.Path)
      scheme == CutSuffix(repo.Scheme, sPlusGit)
      port == Port(repo.Host)
      host == Hostname(repo.Host)
      ok == /\ pth # <<>>
            /\ scheme = sHTTPS
            /\ port = <<>> \/ port = <<"4", "4", "3">>
            /\ host = defaultHost \/ host = rawHost
  IN  [ok |-> ok, scheme |-> repo.Scheme]

\* gitlab.Raw: whether a raw-content URL is returned, and its scheme
gitlabRaw(loc) == [ok |-> loc.Path # <<>>, scheme |-> loc.Scheme]

\* giturl.Raw
Raw(loc) ==
  Bind(RepoURL(loc), LAMBDA u :
  Bind(AutoDetect(u), LAMBDA d :
    IF d.panic THEN [panic |-> TRUE, ok |-> FALSE, scheme |-> <<>>]
    ELSE IF ~d.ok THEN [panic |-> FALSE, ok |-> FALSE, scheme |-> <<>>]
    ELSE IF d.provider = "github" THEN [panic |-> FALSE] @@ githubRaw(loc)
    ELSE [panic |-> FALSE] @@ gitlabRaw(loc)))

\* gitOptions.toInternalGitOptions
toInternalGitOptions(o) ==
  [GitSkipAutoDetect |-> o.gitSkipAutodetect,
   ResolveExactTag |-> o.resolveExactTag,
   AllowPreReleases |-> FALSE]

\* Repository.supportArchive that takes https for a transport of git archive
supportArchiveWithHTTPS(u) == u.Scheme = <<"g", "i", "t">> \/ u.Scheme = sSSH \/ u.Scheme = sHTTPS

\* Repository.supportArchive
supportArchive(u) == u.Scheme = <<"g", "i", "t">> \/ u.Scheme = sSSH

\* ------------------------------------------------------------------------
\* The Fetcher: Fetcher.FetchLocator over Repository.Fetch
\* ------------------------------------------------------------------------

\* the bytes of the fetched file on the remote
FileContent == <<1, 2>>

\* what a copy that fails midway has already written
PartialContent == <<1>>

FetchOptions ==
  [requireVersion : BOOLEAN, resolveExactTag : BOOLEAN, allowPrereleases : BOOLEAN,
   gitSkipAutodetect : BOOLEAN]

Schemes == {sHTTPS, sHTTP, sSSH, <<"g", "i", "t">>, sGitPlus \o sHTTPS}

Hosts ==
  { defaultHost,
    <<"g", "i", "t", "h", "u", "b", ".", "c", "o", "m", ":", "8", "4", "4", "3">>,
    <<"g", "i", "t", "l", "a", "b", ".", "c", "o", "m">>,
    <<"e", "x", "a", "m", "p", "l", "e", ".", "c", "o", "m">>,
    <<"b", "i", "t", "b", "u", "c", "k", "e", "t", ".", "o", "r", "g">> }

\* the locators handed to the Fetcher: a repository on a known or unknown
\* host, with or without a version, for a file or for the repository root;
\* and the locator of an empty URL
Locators ==
  [Scheme : Schemes, Host : Hosts, RepoPath : {<<"/", "u", "s", "e", "r", "/", "r", "e", "p", "o">>},
   Version : {<<>>, <<"v", "1">>}, Path : {<<"L", "I", "C", "E", "N", "S", "E">>, <<"/">>}]
  \cup {NoLocator}

\* the advertisements of the remotes of the fetches
RemoteAdvertisements ==
  { <<RefPool[1], RefPool[2], RefPool[5]>>,
    <<RefPool[2], RefPool[7]>> }

Init ==
  /\ advertised \in RemoteAdvertisements
  /\ refSpec = <<>>
  /\ gitOptions = toInternalGitOptions(NoFetchOptions)
  /\ resolved = NotResolved
  /\ fetchOptions \in FetchOptions
  /\ locator \in Locators
  /\ pc = "FetchLocator"
  /\ sink = <<>>
  /\ result = NotReturned
  /\ trace = <<>>
  /\ BackingIdle
  /\ ClonerIdle
  /\ native = NoNative
  /\ LocatorIdle

\* FetchLocator returns err: every error it returns is built with ErrVCS
\* (fmt.Errorf with %w, or errors.Join)
Return(err) ==
  /\ pc' = "done"
  /\ result' = [returned |-> TRUE, err |-> err, panic |-> FALSE, wraps |-> err # ""]

\* Fetcher.FetchLocator, the check of the required version
FetchLocator ==
  /\ pc = "FetchLocator"
  /\ IF fetchOptions.requireVersion /\ locator.Version = <<>>
     THEN Return("an explicit version is required")
     ELSE pc' = "raw" /\ UNCHANGED result
  /\ trace' = Append(trace, "FetchLocator")
  /\ UNCHANGED <<advertised, refSpec, gitOptions, resolved, fetchOptions, locator, sink, extVars>>

\* Fetcher.FetchLocator, the raw-content short-circuit: download.Content
\* answers 200 with the body, or a copy of the body fails midway, or the GET
\* fails (status, transport)
RawContent ==
  /\ pc = "raw"
  /\ \E raw \in {Raw(locator)} :
         IF ~Supported(RepoURL(locator))
         THEN pc' = "NewRepo" /\ UNCHANGED <<sink, result, trace>>
         ELSE IF raw.panic
         THEN /\ pc' = "done"
              /\ result' = [returned |-> FALSE, err |-> "not implemented", panic |-> TRUE, wraps |-> FALSE]
              /\ UNCHANGED <<sink, trace>>
         ELSE IF ~raw.ok
         THEN pc' = "NewRepo" /\ UNCHANGED <<sink, result, trace>>
         ELSE IF TrimPrefix(raw.scheme, sGitPlus) \notin {sHTTP, sHTTPS}
         THEN /\ Return("could not fetch raw content")
              /\ trace' = Append(trace, "raw unsupported")
              /\ UNCHANGED sink
         ELSE \E outcome \in {"200", "copy failed", "GET failed"} :
                CASE outcome = "200" ->
                       /\ sink' = sink \o FileContent
                       /\ trace' = Append(trace, "raw written")
                       /\ pc' = "NewRepo"
                       /\ UNCHANGED result
                  [] outcome = "copy failed" ->
                       /\ sink' = sink \o PartialContent
                       /\ trace' = Append(trace, "raw copy failed")
                       /\ Return("could not fetch raw content")
                  [] OTHER ->
                       /\ trace' = Append(trace, "raw failed")
                       /\ Return("could not fetch raw content")
                       /\ UNCHANGED sink
  /\ UNCHANGED <<advertised, refSpec, gitOptions, resolved, fetchOptions, locator, extVars>>

\* git.NewRepo(locator.RepoURL(), f.toInternalGitOptions()) and the call of
\* repo.Fetch(ctx, w, locator.Path(), locator.Version())
NewRepo ==
  /\ pc = "NewRepo"
  /\ gitOptions' = toInternalGitOptions(fetchOptions)
  /\ refSpec' = locator.Version
  /\ pc' = "init"
  /\ trace' = Append(trace, "NewRepo")
  /\ UNCHANGED <<advertised, resolved, fetchOptions, locator, sink, result, extVars>>

\* Repository.init
RepoInit ==
  /\ pc = "init"
  /\ IF \E u \in {RepoURL(locator)} : u.Scheme = <<>> /\ u.Host = <<>> /\ u.Path = <<>>
     THEN Return("could not initialize git repo")
     ELSE pc' = "selectRef" /\ UNCHANGED result
  /\ trace' = Append(trace, "init")
  /\ UNCHANGED <<advertised, refSpec, gitOptions, resolved, fetchOptions, locator, sink, extVars>>

\* Repository.selectRef: the advertisement (which may fail), then pickRef
SelectRef ==
  /\ pc = "selectRef"
  /\ \E listed \in BOOLEAN :
     \E picked \in {pickRef(advertised, refSpec, gitOptions)} :
           IF ~listed
           THEN /\ Return("could not resolve remote ref")
                /\ trace' = Append(trace, "list failed")
                /\ UNCHANGED resolved
           ELSE /\ resolved' = [done |-> TRUE] @@ picked
                /\ trace' = Append(trace, "selectRef")
                /\ IF picked.ok
                   THEN pc' = "capabilities" /\ UNCHANGED result
                   ELSE Return("could not resolve remote ref")
  /\ UNCHANGED <<advertised, refSpec, gitOptions, fetchOptions, locator, sink, extVars>>

\* getRemoteCapabilities, then the choice of the strategy: the native
\* archive when autodetection is on, the transport supports it and git is
\* installed, the in-process fetch otherwise. The trace tells whether
\* exec.LookPath finds git
GetRemoteCapabilities ==
  /\ pc = "capabilities"
  /\ \E probed \in BOOLEAN, isGitInstalled \in BOOLEAN :
       /\ IF ~probed
          THEN Return("unable to retrieve the git protocol capabilities")
          ELSE /\ UNCHANGED result
               /\ IF ~gitOptions.GitSkipAutoDetect /\ supportArchive(RepoURL(locator)) /\ isGitInstalled
                  THEN pc' = "native"
                  ELSE pc' = "fetch"
       /\ trace' = Append(trace, IF probed /\ isGitInstalled THEN "capabilities, git on PATH" ELSE "capabilities")
  /\ UNCHANGED <<advertised, refSpec, gitOptions, resolved, fetchOptions, locator, sink, extVars>>

\* Repository.nativeExtractGitArchive: the child fails to start, or the
\* archive is copied to the sink wholly or in part, and the child exits with
\* or without an error; the error of the tar loop is local to the loop, so the
\* returned error is the one of the child
NativeExtractGitArchive ==
  /\ pc = "native"
  /\ \E started \in BOOLEAN, copied \in {"all", "part", "none"}, exited \in BOOLEAN :
       IF ~started
       THEN /\ copied = "none" /\ ~exited
            /\ Return("git archive: start")
            /\ trace' = Append(trace, "native failed")
            /\ UNCHANGED sink
       ELSE /\ sink' = sink \o (CASE copied = "all" -> FileContent
                                  [] copied = "part" -> PartialContent
                                  [] OTHER -> <<>>)
            /\ trace' = Append(trace, IF copied = "all" /\ exited THEN "native written" ELSE "native failed")
            /\ Return(IF exited THEN "" ELSE "git archive: exit status")
  /\ UNCHANGED <<advertised, refSpec, gitOptions, resolved, fetchOptions, locator, extVars>>

\* Repository.fetch: the fetch of the selected hash
FetchHash ==
  /\ pc = "fetch"
  /\ \E fetched \in BOOLEAN :
       IF fetched
       THEN pc' = "checkout" /\ trace' = Append(trace, "fetch") /\ UNCHANGED result
       ELSE Return("could not fetch remote ref") /\ trace' = Append(trace, "fetch failed")
  /\ UNCHANGED <<advertised, refSpec, gitOptions, resolved, fetchOptions, locator, sink, extVars>>

\* fetchAndSparseCheckout: the sparse checkout of the file
Checkout ==
  /\ pc = "checkout"
  /\ \E checkedOut \in BOOLEAN :
       IF checkedOut
       THEN pc' = "copy" /\ trace' = Append(trace, "checkout") /\ UNCHANGED result
       ELSE Return("checkout") /\ trace' = Append(trace, "checkout failed")
  /\ UNCHANGED <<advertised, refSpec, gitOptions, resolved, fetchOptions, locator, sink, extVars>>

\* fetchAndSparseCheckout: the file is opened and copied to the sink
CopyToSink ==
  /\ pc = "copy"
  /\ \E outcome \in {"copied", "not found", "copy failed"} :
       CASE outcome = "copied" ->
              /\ sink' = sink \o FileContent
              /\ trace' = Append(trace, "checkout written")
              /\ Return("")
         [] outcome = "not found" ->
              /\ trace' = Append(trace, "copy failed")
              /\ Return("did not find on checkout")
              /\ UNCHANGED sink
         [] OTHER ->
              /\ sink' = sink \o PartialContent
              /\ trace' = Append(trace, "copy failed")
              /\ Return("copy")
  /\ UNCHANGED <<advertised, refSpec, gitOptions, resolved, fetchOptions, locator, extVars>>

Next ==
  \/ FetchLocator
  \/ RawContent
  \/ NewRepo
  \/ RepoInit
  \/ SelectRef
  \/ GetRemoteCapabilities
  \/ NativeExtractGitArchive
  \/ FetchHash
  \/ Checkout
  \/ CopyToSink

Spec == Init /\ [][Next]_vars

\* ------------------------------------------------------------------------
\* Concurrent calls on one Fetcher (git path of FetchLocator, cooperating
\* remote): every call builds its own Repository from the options of the
\* Fetcher
\* ------------------------------------------------------------------------

\* withGitBackingDir: the options it sets
withGitBackingDir(enabled, dir) ==
  [isFSBacked |-> enabled,
   dir |-> IF ~enabled THEN "" ELSE IF dir = "" THEN tempDir ELSE dir]

\* withGitBackingDir: os.MkdirTemp creates the directory when none is given
MkdirTemp(enabled, dir) ==
  IF enabled /\ dir = "" THEN [InitialDisk EXCEPT ![tempDir].exists = TRUE] ELSE InitialDisk

\* NewRepo: the repository is backed by the directory of the options, or by
\* memory
isOnDisk == backing.isFSBacked /\ backing.dir # ""

\* the content of the file that call c asks for
FileAt(c) == <<c>>

\* the variables of the single fetch and of the resolver, not used here
singleVars == <<advertised, refSpec, gitOptions, resolved, fetchOptions, locator, pc, sink, result, trace, native>>

\* NewFetcher(FetchWithBackingDir(enabled, dir)) and the start of the calls
InitConcurrent ==
  /\ advertised = <<>>
  /\ refSpec = <<>>
  /\ gitOptions = toInternalGitOptions(NoFetchOptions)
  /\ resolved = NotResolved
  /\ fetchOptions = NoFetchOptions
  /\ locator = NoLocator
  /\ sink = <<>>
  /\ result = NotReturned
  /\ trace = <<>>
  /\ pc = "concurrent"
  /\ \E enabled \in BOOLEAN, dir \in {"", callerDir} :
       /\ backing = withGitBackingDir(enabled, dir)
       /\ disk = MkdirTemp(enabled, dir)
  /\ calls = [c \in Calls |-> [NoCall EXCEPT !.pc = "NewRepo"]]
  /\ ClonerIdle
  /\ native = NoNative
  /\ LocatorIdle

\* git.NewRepo in call c
CallNewRepo(c) ==
  /\ pc = "concurrent"
  /\ calls[c].pc = "NewRepo"
  /\ calls' = [calls EXCEPT ![c].pc = "init"]
  /\ UNCHANGED <<singleVars, backing, disk, cloner, input, parsed, held>>

\* Repository.init in call c: r.store() and r.worktree(); the worktree of a
\* directory-backed repository starts with RemoveAll(fs.Root()), then
\* gogit.Init lays the repository out in it
CallRepoInit(c) ==
  /\ pc = "concurrent"
  /\ calls[c].pc = "init"
  /\ calls' = [calls EXCEPT ![c].pc = "fetch"]
  /\ IF isOnDisk
     THEN disk' = [disk EXCEPT ![backing.dir] =
                     [exists |-> TRUE, objects |-> {}, file |-> <<>>, removed |-> TRUE]]
     ELSE UNCHANGED disk
  /\ UNCHANGED <<singleVars, backing, cloner, input, parsed, held>>

\* Repository.fetch in call c: the objects of the selected hash are stored
CallFetchHash(c) ==
  /\ pc = "concurrent"
  /\ calls[c].pc = "fetch"
  /\ IF isOnDisk
     THEN /\ disk' = [disk EXCEPT ![backing.dir].objects = @ \cup {c}, ![backing.dir].exists = TRUE]
          /\ calls' = [calls EXCEPT ![c].pc = "checkout"]
     ELSE /\ calls' = [calls EXCEPT ![c].pc = "checkout", ![c].objects = TRUE]
          /\ UNCHANGED disk
  /\ UNCHANGED <<singleVars, backing, cloner, input, parsed, held>>

\* fetchAndSparseCheckout in call c: the checkout reads the objects from the
\* store and writes the file to the worktree
CallCheckout(c) ==
  /\ pc = "concurrent"
  /\ calls[c].pc = "checkout"
  /\ IF isOnDisk
     THEN IF c \in disk[backing.dir].objects
          THEN /\ disk' = [disk EXCEPT ![backing.dir].file = FileAt(c)]
               /\ calls' = [calls EXCEPT ![c].pc = "copy"]
          ELSE /\ calls' = [calls EXCEPT ![c].pc = "done", ![c].err = "checkout"]
               /\ UNCHANGED disk
     ELSE /\ calls' = [calls EXCEPT ![c].pc = "copy", ![c].file = FileAt(c)]
          /\ UNCHANGED disk
  /\ UNCHANGED <<singleVars, backing, cloner, input, parsed, held>>

\* fetchAndSparseCheckout in call c: the file is opened in the worktree and
\* copied to the sink of the call
CallCopyToSink(c) ==
  /\ pc = "concurrent"
  /\ calls[c].pc = "copy"
  /\ LET file == IF isOnDisk THEN disk[backing.dir].file ELSE calls[c].file
     IN  IF file = <<>>
         THEN calls' = [calls EXCEPT ![c].pc = "done", ![c].err = "did not find on checkout"]
         ELSE calls' = [calls EXCEPT ![c].pc = "done", ![c].sink = @ \o file]
  /\ UNCHANGED <<singleVars, backing, disk, cloner, input, parsed, held>>

NextConcurrent ==
  \E c \in Calls :
    \/ CallNewRepo(c)
    \/ CallRepoInit(c)
    \/ CallFetchHash(c)
    \/ CallCheckout(c)
    \/ CallCopyToSink(c)

SpecConcurrent == InitConcurrent /\ [][NextConcurrent]_vars

\* ------------------------------------------------------------------------
\* URLs (net/url, as used by the locators) on the characters of Alphabet,
\* none of which is escaped in a path or in a fragment but "#" and "?"
\* ------------------------------------------------------------------------

\* strings.LastIndex for a one-character separator, 1-based; 0 when absent
LastIndex(s, c) ==
  IF \E i \in 1..Len(s) : s[i] = c
  THEN CHOOSE i \in 1..Len(s) : s[i] = c /\ \A j \in (i + 1)..Len(s) : s[j] # c
  ELSE 0

\* strings.SplitN(s, c, 2)
SplitN2(s, c) ==
  Bind(IndexRune(s, c), LAMBDA i :
    IF i = 0 THEN <<s>> ELSE <<SubSeq(s, 1, i - 1), SubSeq(s, i + 1, Len(s))>>)

letters == {Alphabet[i] : i \in CharOrd("A")..Len(Alphabet)}

\* url.URL.String
URLString(u) ==
  LET scheme == IF u.Scheme # <<>> THEN u.Scheme \o <<":">> ELSE <<>>
      slashes == IF (u.Scheme # <<>> \/ u.Host # <<>> \/ u.HasUser)
                    /\ (u.Host # <<>> \/ u.Path # <<>> \/ u.HasUser)
                 THEN <<"/", "/">> ELSE <<>>
      user == IF u.HasUser THEN u.User \o <<"@">> ELSE <<>>
      sep == IF u.Path # <<>> /\ u.Path[1] # "/" /\ u.Host # <<>> THEN <<"/">> ELSE <<>>
      fragment == IF u.Fragment # <<>> THEN <<"#">> \o u.Fragment ELSE <<>>
  IN  scheme \o slashes \o user \o u.Host \o sep \o u.Path \o fragment

\* url.Parse: the fragment, the scheme, the query (dropped), the authority
\* with its user, the path
URLParse(str) ==
  Bind(SplitN2(str, "#"), LAMBDA f :
  Bind(IndexRune(f[1], ":"), LAMBDA colon :
  Bind(/\ colon > 1
       /\ f[1][1] \in letters
       /\ \A i \in 1..(colon - 1) : f[1][i] \in letters \cup numbers \cup {"+", "-", "."},
       LAMBDA hasScheme :
  Bind(SplitN2(IF hasScheme THEN SubSeq(f[1], colon + 1, Len(f[1])) ELSE f[1], "?")[1], LAMBDA rest :
  Bind(HasPrefix(rest, <<"/", "/">>), LAMBDA hasAuthority :
  Bind(IF hasAuthority THEN SubSeq(rest, 3, Len(rest)) ELSE rest, LAMBDA afterSlashes :
  Bind(IF hasAuthority THEN IndexRune(afterSlashes, "/") ELSE 1, LAMBDA slash :
  Bind(IF ~hasAuthority THEN <<>>
       ELSE IF slash = 0 THEN afterSlashes ELSE SubSeq(afterSlashes, 1, slash - 1), LAMBDA authority :
  Bind(LastIndex(authority, "@"), LAMBDA at :
    [ok |-> colon # 1,
     url |-> [Scheme |-> IF hasScheme THEN ToLower(SubSeq(f[1], 1, colon - 1)) ELSE <<>>,
              HasUser |-> at > 0,
              User |-> IF at > 0 THEN SubSeq(authority, 1, at - 1) ELSE <<>>,
              Host |-> SubSeq(authority, at + 1, Len(authority)),
              Path |-> IF ~hasAuthority THEN rest
                       ELSE IF slash = 0 THEN <<>> ELSE SubSeq(afterSlashes, slash, Len(afterSlashes)),
              Fragment |-> IF Len(f) = 2 THEN f[2] ELSE <<>>]])))))))))

\* ------------------------------------------------------------------------
\* Locators: SPDXLocator and GitLocator, and the github URL parser
\* ------------------------------------------------------------------------

RECURSIVE Join(_, _)
\* strings.Join
Join(parts, sep) ==
  IF Len(parts) = 0 THEN <<>>
  ELSE IF Len(parts) = 1 THEN parts[1]
  ELSE Bind(Tail(parts), LAMBDA rest : parts[1] \o sep \o Join(rest, sep))

\* path.Join on elements without "." or "..": the non-empty elements joined
\* with "/", then cleaned of repeated and trailing slashes
pathJoin(elems) ==
  Bind(Join(SelectSeq(elems, LAMBDA e : e # <<>>), <<"/">>), LAMBDA joined :
  Bind(SelectSeq(Split(joined, "/"), LAMBDA e : e # <<>>), LAMBDA segments :
    IF joined = <<>> THEN <<>>
    ELSE (IF joined[1] = "/" THEN <<"/">> ELSE <<>>) \o Join(segments, <<"/">>)))

\* the outcome of a parser: a locator, an error or a panic
Parsed(l) == [ok |-> TRUE, err |-> "", panic |-> FALSE, locator |-> l]

ParseError(err) == [ok |-> FALSE, err |-> err, panic |-> FALSE, locator |-> NoLocatorObject]

ParsePanic(err) == [ok |-> FALSE, err |-> err, panic |-> TRUE, locator |-> NoLocatorObject]

\* SPDXLocatorFromURL: parts[1] of a split that has a single part is an index
\* out of range
SPDXLocatorFromURL(u, requireVersion) ==
  IF u.Path = <<>> THEN ParseError("SPDX locator requires an URL path")
  ELSE IF u.Fragment = <<>> THEN ParseError("SPDX locator requires an URL fragment")
  ELSE
  Bind(SplitN2(u.Scheme, "+"), LAMBDA schemeParts :
  Bind(SplitN2(u.Path, "@"), LAMBDA pathParts :
    IF Len(schemeParts) < 2 THEN ParsePanic("index out of range (scheme)")
    ELSE IF Len(pathParts) < 2 THEN ParsePanic("index out of range (path)")
    ELSE IF requireVersion /\ pathParts[2] = <<>> THEN ParseError("a non-empty version is required")
    ELSE Parsed([kind |-> "spdx",
                 Tool |-> schemeParts[1],
                 Transport |-> schemeParts[2],
                 HasUser |-> u.HasUser,
                 User |-> u.User,
                 Host |-> u.Host,
                 RepoPath |-> u.Path,
                 Ref |-> pathParts[2],
                 SubPath |-> u.Fragment,
                 repo |-> NoURL])))

\* github.Parse: the repository URL, the path and the version of a github URL
githubParse(githubURL) ==
  Bind([githubURL EXCEPT
          !.Scheme = IF @ = <<>> THEN sHTTPS ELSE @,
          !.Host = ToLower(IF Hostname(@) = <<>>
                           THEN (IF Port(@) = <<>> THEN defaultHost ELSE defaultHost \o <<":">> \o Port(@))
                           ELSE @),
          !.Fragment = <<>>], LAMBDA u0 :
  Bind(Split(TrimSlashes(githubURL.Path), "/"), LAMBDA parts :
  LET isRaw == HasPrefix(u0.Host, <<"r", "a", "w">>)
      failed == [ok |-> FALSE, repoURL |-> NoURL, path |-> <<>>, version |-> <<>>]
      repo == Join(SubSeq(parts, 1, 2), <<"/">>)
      u == [u0 EXCEPT !.Path = CutSuffix(repo, <<".", "g", "i", "t">>)]
      rest == SubSeq(parts, 3, Len(parts))
      kind == ToLower(rest[1])
      found(ref, files, isTree) ==
        IF Len(files) = 0 /\ ~isTree THEN failed
        ELSE [ok |-> TRUE, repoURL |-> u,
              path |-> IF Len(files) = 0 THEN <<"/">> ELSE Join(files, <<"/">>),
              version |-> ref]
  IN  IF Len(parts) < 2 THEN failed
      ELSE IF Len(parts) = 2
           THEN (IF isRaw THEN failed
                 ELSE [ok |-> TRUE, repoURL |-> u, path |-> <<"/">>, version |-> <<>>])
      ELSE IF isRaw
           THEN (IF kind = <<"r", "e", "f", "s">>
                 THEN (IF Len(rest) < 3 THEN failed ELSE found(rest[3], SubSeq(rest, 4, Len(rest)), FALSE))
                 ELSE IF kind \in {<<"b", "l", "o", "b">>, <<"t", "r", "e", "e">>} THEN failed
                 ELSE IF Len(rest) < 2 THEN failed
                 ELSE found(rest[1], SubSeq(rest, 2, Len(rest)), FALSE))
           ELSE IF Len(rest) < 2 THEN failed
           ELSE IF kind \notin {<<"b", "l", "o", "b">>, <<"t", "r", "e", "e">>} THEN failed
           ELSE found(rest[2], SubSeq(rest, 3, Len(rest)), kind = <<"t", "r", "e", "e">>)))

\* GitLocatorFromURL: the version is required before the URL is looked at
GitLocatorFromURL(u, requireVersion) ==
  IF requireVersion THEN ParseError("a non-empty version is required")
  ELSE
  Bind(ToLower(u.Host), LAMBDA host :
    IF Contains(host, sGithub) \/ Contains(host, sGitlab)
    THEN Bind(githubParse(u), LAMBDA loc :
           IF ~loc.ok THEN ParseError("invalid git locator")
           ELSE Parsed([kind |-> "git",
                        Tool |-> <<>>,
                        Transport |-> u.Scheme,
                        HasUser |-> u.HasUser,
                        User |-> u.User,
                        Host |-> u.Host,
                        RepoPath |-> <<>>,
                        Ref |-> loc.version,
                        SubPath |-> loc.path,
                        repo |-> loc.repoURL]))
    ELSE IF Contains(host, sAzure) \/ Contains(host, sBitbucket) \/ Contains(host, sGitea)
    THEN ParsePanic("not implemented")
    ELSE ParseError("invalid git locator"))

\* Locator.RepoURL: the URL held by a GitLocator, a new URL for a SPDXLocator
LocatorRepoURL(l) ==
  IF l.kind = "git" THEN l.repo
  ELSE [Scheme |-> l.Transport, HasUser |-> TRUE, User |-> l.User, Host |-> l.Host,
        Path |-> l.RepoPath, Fragment |-> <<>>]

\* Locator.Version
LocatorVersion(l) == l.Ref

\* Locator.Path
LocatorPath(l) == l.SubPath

\* the URL that String() builds and prints: the one RepoURL() returned, with
\* the tool in the scheme, the version in the path and the file as fragment
StringURL(l) ==
  Bind(LocatorRepoURL(l), LAMBDA u :
    [u EXCEPT
       !.Scheme = IF l.kind = "git"
                  THEN (IF HasPrefix(@, sGitPlus) THEN @ ELSE sGitPlus \o @)
                  ELSE (IF l.Tool # <<>> THEN l.Tool \o <<"+">> \o @ ELSE @),
       !.Path = @ \o <<"@">> \o LocatorVersion(l),
       !.Fragment = LocatorPath(l)])

\* SPDXLocator.String, GitLocator.String
LocatorString(l) == URLString(StringURL(l))

\* the URL that github.Raw or gitlab.Raw builds on the one RepoURL() returned
RawURL(provider, l) ==
  Bind(LocatorRepoURL(l), LAMBDA u :
  Bind(IF LocatorVersion(l) = <<>> THEN HEAD ELSE LocatorVersion(l), LAMBDA version :
    IF provider = "github"
    THEN [u EXCEPT !.Host = rawHost,
                   !.Path = pathJoin(<<@, version, TrimSlashes(LocatorPath(l))>>),
                   !.Fragment = <<>>]
    ELSE [u EXCEPT !.Path = pathJoin(<<@, <<"-">>, <<"r", "a", "w">>, version, LocatorPath(l)>>),
                   !.Fragment = <<>>]))

\* giturl.Raw on a locator: a panic, an error, or the raw-content URL and the
\* locator after the call
LocatorRaw(l) ==
  Bind(LocatorRepoURL(l), LAMBDA repo :
  Bind(AutoDetect(repo), LAMBDA d :
  LET failed == [panic |-> FALSE, ok |-> FALSE, url |-> NoURL, locator |-> l]
      done == [panic |-> FALSE, ok |-> TRUE, url |-> RawURL(d.provider, l),
               locator |-> IF l.kind = "git" THEN [l EXCEPT !.repo = RawURL(d.provider, l)] ELSE l]
      port == Port(repo.Host)
      host == Hostname(repo.Host)
  IN  IF d.panic THEN [failed EXCEPT !.panic = TRUE]
      ELSE IF ~d.ok THEN failed
      ELSE IF d.provider = "github"
      THEN (IF /\ TrimSlashes(LocatorPath(l)) # <<>>
               /\ CutSuffix(repo.Scheme, sPlusGit) = sHTTPS
               /\ port = <<>> \/ port = <<"4", "4", "3">>
               /\ host = defaultHost \/ host = rawHost
            THEN done ELSE failed)
      ELSE (IF LocatorPath(l) # <<>> THEN done ELSE failed)))

\* the URL strings handed to the methods that take one
InputURLs ==
  {
   \* a SPDX locator
   <<"g", "i", "t", "+", "h", "t", "t", "p", "s", ":", "/", "/", "g", "i", "t", "h", "u", "b", ".", "c", "o", "m", "/", "u", "s", "e", "r", "/", "r", "e", "p", "o", "@", "v", "1", "#", "L", "I", "C", "E", "N", "S", "E">>,
   \* a SPDX locator with a user
   <<"g", "i", "t", "+", "s", "s", "h", ":", "/", "/", "g", "i", "t", "@", "g", "i", "t", "h", "u", "b", ".", "c", "o", "m", "/", "u", "s", "e", "r", "/", "r", "e", "p", "o", "@", "v", "1", ".", "0", ".", "0", "#", "R", "E", "A", "D", "M", "E", ".", "m", "d">>,
   \* a SPDX locator without a version
   <<"g", "i", "t", "+", "h", "t", "t", "p", "s", ":", "/", "/", "g", "i", "t", "h", "u", "b", ".", "c", "o", "m", "/", "u", "s", "e", "r", "/", "r", "e", "p", "o", "#", "L", "I", "C", "E", "N", "S", "E">>,
   \* a SPDX locator without a tool
   <<"h", "t", "t", "p", "s", ":", "/", "/", "g", "i", "t", "h", "u", "b", ".", "c", "o", "m", "/", "u", "s", "e", "r", "/", "r", "e", "p", "o", "@", "v", "1", "#", "L", "I", "C", "E", "N", "S", "E">>,
   \* a github URL with a version
   <<"h", "t", "t", "p", "s", ":", "/", "/", "g", "i", "t", "h", "u", "b", ".", "c", "o", "m", "/", "u", "s", "e", "r", "/", "r", "e", "p", "o", "/", "b", "l", "o", "b", "/", "m", "a", "s", "t", "e", "r", "/", "L", "I", "C", "E", "N", "S", "E">>,
   \* a github URL without a version
   <<"h", "t", "t", "p", "s", ":", "/", "/", "g", "i", "t", "h", "u", "b", ".", "c", "o", "m", "/", "u", "s", "e", "r", "/", "r", "e", "p", "o">>,
   \* a gitlab URL
   <<"h", "t", "t", "p", "s", ":", "/", "/", "g", "i", "t", "l", "a", "b", ".", "c", "o", "m", "/", "u", "s", "e", "r", "/", "r", "e", "p", "o", "/", "t", "r", "e", "e", "/", "v", "1">>,
   \* a bitbucket URL
   <<"h", "t", "t", "p", "s", ":", "/", "/", "b", "i", "t", "b", "u", "c", "k", "e", "t", ".", "o", "r", "g", "/", "u", "s", "e", "r", "/", "r", "e", "p", "o">>,
   \* a URL of an unknown host
   <<"h", "t", "t", "p", "s", ":", "/", "/", "e", "x", "a", "m", "p", "l", "e", ".", "c", "o", "m", "/", "u", "s", "e", "r", "/", "r", "e", "p", "o">>,
   \* a string that is not a URL
   <<":", "b", "a", "d">> }

\* FetchURL, CloneURL, FetchURLFromClone: the SPDX parser first, the git
\* parser when it returns an error
LocatorFromURL(u) ==
  Bind(SPDXLocatorFromURL(u, FALSE), LAMBDA spdx :
    IF spdx.ok \/ spdx.panic THEN spdx ELSE GitLocatorFromURL(u, FALSE))

\* the locators that the parsers build from the URL strings
LocatorObjects ==
  {LocatorFromURL(URLParse(str).url).locator :
     str \in {i \in InputURLs : URLParse(i).ok /\ LocatorFromURL(URLParse(i).url).ok}}

\* ------------------------------------------------------------------------
\* The Fetcher entered by Fetch and FetchURL
\* ------------------------------------------------------------------------

InitFetch ==
  /\ advertised \in RemoteAdvertisements
  /\ refSpec = <<>>
  /\ gitOptions = toInternalGitOptions(NoFetchOptions)
  /\ resolved = NotResolved
  /\ fetchOptions \in {o \in FetchOptions : ~o.allowPrereleases /\ ~o.resolveExactTag}
  /\ locator = NoLocator
  /\ pc = "Fetch"
  /\ sink = <<>>
  /\ result = NotReturned
  /\ trace = <<>>
  /\ BackingIdle
  /\ ClonerIdle
  /\ native = NoNative
  /\ input \in InputURLs
  /\ parsed = NotParsed
  /\ held = NoLocatorObject

\* Fetcher.Fetch: url.Parse, then FetchURL
Fetch ==
  /\ pc = "Fetch"
  /\ IF URLParse(input).ok
     THEN pc' = "FetchURL" /\ UNCHANGED result
     ELSE Return("expected a valid URL")
  /\ trace' = Append(trace, "Fetch")
  /\ UNCHANGED <<advertised, refSpec, gitOptions, resolved, fetchOptions, locator, sink, extVars>>

\* Fetcher.FetchURL: the locator of the URL, then FetchLocator
FetchURL ==
  /\ pc = "FetchURL"
  /\ \E p \in {LocatorFromURL(URLParse(input).url)} :
       IF p.panic
       THEN /\ pc' = "done"
            /\ result' = [returned |-> FALSE, err |-> p.err, panic |-> TRUE, wraps |-> FALSE]
            /\ UNCHANGED locator
       ELSE IF ~p.ok
       THEN /\ Return("the provided URL is not a SPDX locator or a recognized git URL")
            /\ UNCHANGED locator
       ELSE /\ locator' = [Scheme |-> LocatorRepoURL(p.locator).Scheme,
                         Host |-> LocatorRepoURL(p.locator).Host,
                         RepoPath |-> LocatorRepoURL(p.locator).Path,
                         Version |-> LocatorVersion(p.locator),
                         Path |-> LocatorPath(p.locator)]
            /\ pc' = "FetchLocator"
            /\ UNCHANGED result
  /\ trace' = Append(trace, "FetchURL")
  /\ UNCHANGED <<advertised, refSpec, gitOptions, resolved, fetchOptions, sink, extVars>>

\* ------------------------------------------------------------------------
\* The Cloner
\* ------------------------------------------------------------------------

\* Repository.Clone: returns no tree and no error
RepositoryClone == [fs |-> "nil", err |-> ""]

\* a method of the Cloner returns err; wraps tells whether the error was
\* built with ErrVCS
ClonerReturn(op, err, wraps) ==
  /\ result' = [returned |-> TRUE, err |-> err, panic |-> FALSE, wraps |-> wraps]
  /\ trace' = Append(trace, [op |-> op, err |-> err])

\* a method of the Cloner panics in a parser
ClonerPanic(op, err) ==
  /\ result' = [returned |-> FALSE, err |-> err, panic |-> TRUE, wraps |-> FALSE]
  /\ trace' = Append(trace, [op |-> op, err |-> "panic"])

\* NewCloner(CloneWithBackingDir(enabled, dir))
InitCloner ==
  /\ advertised = <<>>
  /\ refSpec = <<>>
  /\ gitOptions = toInternalGitOptions(NoFetchOptions)
  /\ resolved = NotResolved
  /\ fetchOptions = NoFetchOptions
  /\ locator = NoLocator
  /\ pc = "cloner"
  /\ sink = <<>>
  /\ result = NotReturned
  /\ trace = <<>>
  /\ \E enabled \in BOOLEAN, dir \in {"", callerDir} :
       /\ backing = withGitBackingDir(enabled, dir)
       /\ disk = MkdirTemp(enabled, dir)
  /\ calls = [c \in Calls |-> NoCall]
  /\ ClonerIdle
  /\ native = NoNative
  /\ LocatorIdle

\* what the methods of the Cloner leave alone
clonerFrame == <<advertised, refSpec, gitOptions, resolved, fetchOptions, locator, pc, backing, disk, calls, input, parsed, held, native>>

\* a method of the Cloner can be called: no call has panicked
ClonerCallable ==
  /\ pc = "cloner"
  /\ Len(trace) < MaxOps
  /\ ~result.panic

\* the body of CloneLocator: git.NewRepo, repo.Clone, then the fields
cloneLocator(op, l) ==
  IF RepositoryClone.err # ""
  THEN ClonerReturn(op, RepositoryClone.err, FALSE) /\ UNCHANGED cloner
  ELSE /\ cloner' = [hasURL |-> TRUE, clonedURL |-> LocatorRepoURL(l), clonedFS |-> RepositoryClone.fs]
       /\ ClonerReturn(op, "", FALSE)

\* FetchLocatorFromClone as it would be if the error of a missing clone were
\* returned without the sentinel
fetchLocatorFromCloneUnwrapped(op, l) ==
  IF ~cloner.hasURL \/ cloner.clonedFS = "nil"
  THEN ClonerReturn(op, "no clone available", FALSE) /\ UNCHANGED sink
  ELSE IF URLString(LocatorRepoURL(l)) # URLString(cloner.clonedURL)
  THEN ClonerReturn(op, "not matching the cloned repo URL", TRUE) /\ UNCHANGED sink
  ELSE \E outcome \in {"copied", "open failed", "copy failed"} :
         CASE outcome = "copied" -> ClonerReturn(op, "", FALSE) /\ sink' = sink \o FileContent
           [] outcome = "open failed" -> ClonerReturn(op, "cannot fetch from clone", TRUE) /\ UNCHANGED sink
           [] OTHER -> ClonerReturn(op, "copy", FALSE) /\ sink' = sink \o PartialContent

\* the body of FetchLocatorFromClone: the checks, then the file is opened in
\* the cloned tree and copied to the writer
fetchLocatorFromClone(op, l) ==
  IF ~cloner.hasURL \/ cloner.clonedFS = "nil"
  THEN ClonerReturn(op, "no clone available", TRUE) /\ UNCHANGED sink
  ELSE IF URLString(LocatorRepoURL(l)) # URLString(cloner.clonedURL)
  THEN ClonerReturn(op, "not matching the cloned repo URL", TRUE) /\ UNCHANGED sink
  ELSE \E outcome \in {"copied", "open failed", "copy failed"} :
         CASE outcome = "copied" -> ClonerReturn(op, "", FALSE) /\ sink' = sink \o FileContent
           [] outcome = "open failed" -> ClonerReturn(op, "cannot fetch from clone", TRUE) /\ UNCHANGED sink
           [] OTHER -> ClonerReturn(op, "copy", FALSE) /\ sink' = sink \o PartialContent

\* Cloner.CloneLocator
CloneLocator ==
  /\ ClonerCallable
  /\ \E l \in LocatorObjects : cloneLocator("CloneLocator", l)
  /\ UNCHANGED <<clonerFrame, sink>>

\* Cloner.Clone and Cloner.CloneURL: url.Parse, the locator of the URL, then
\* CloneLocator
Clone ==
  /\ ClonerCallable
  /\ \E str \in InputURLs :
     \E u \in {URLParse(str)} :
     \E p \in {LocatorFromURL(u.url)} :
       IF ~u.ok THEN ClonerReturn("Clone", "expected a valid URL", TRUE) /\ UNCHANGED cloner
       ELSE IF p.panic THEN ClonerPanic("Clone", p.err) /\ UNCHANGED cloner
       ELSE IF ~p.ok
       THEN /\ ClonerReturn("Clone", "the provided URL is not a SPDX locator or a recognized git URL", TRUE)
            /\ UNCHANGED cloner
       ELSE cloneLocator("Clone", p.locator)
  /\ UNCHANGED <<clonerFrame, sink>>

\* Cloner.FetchLocatorFromClone
FetchLocatorFromClone ==
  /\ ClonerCallable
  /\ \E l \in LocatorObjects : fetchLocatorFromClone("FetchLocatorFromClone", l)
  /\ UNCHANGED <<clonerFrame, cloner>>

\* Cloner.FetchFromClone and Cloner.FetchURLFromClone: url.Parse, the locator
\* of the URL, then FetchLocatorFromClone
FetchFromClone ==
  /\ ClonerCallable
  /\ \E str \in InputURLs :
     \E u \in {URLParse(str)} :
     \E p \in {LocatorFromURL(u.url)} :
       IF ~u.ok THEN ClonerReturn("FetchFromClone", "expected a valid URL", TRUE) /\ UNCHANGED sink
       ELSE IF p.panic THEN ClonerPanic("FetchFromClone", p.err) /\ UNCHANGED sink
       ELSE IF ~p.ok
       THEN /\ ClonerReturn("FetchFromClone", "the provided URL is not a SPDX locator or a recognized git URL", TRUE)
            /\ UNCHANGED sink
       ELSE fetchLocatorFromClone("FetchFromClone", p.locator)
  /\ UNCHANGED <<clonerFrame, cloner>>

\* Cloner.Close: returns nil, with or without a cloned tree
Close ==
  /\ ClonerCallable
  /\ ClonerReturn("Close", "", FALSE)
  /\ UNCHANGED <<clonerFrame, cloner, sink>>

NextCloner ==
  \/ CloneLocator
  \/ Clone
  \/ FetchLocatorFromClone
  \/ FetchFromClone
  \/ Close

SpecCloner == InitCloner /\ [][NextCloner]_vars

\* ------------------------------------------------------------------------
\* The public methods of the Fetcher and of the Cloner
\* ------------------------------------------------------------------------

SpecAPI ==
  /\ Init \/ InitFetch \/ InitCloner
  /\ [][Fetch \/ FetchURL \/ Next \/ NextCloner]_vars

\* ------------------------------------------------------------------------
\* Properties of the resolver (checked under SpecResolve)
\* ------------------------------------------------------------------------

\* the advertised references as a set
AdvertisedSet == {advertised[i] : i \in 1..Len(advertised)}

\* the advertised tags
AdvertisedTags == {rf \in AdvertisedSet : IsTag(rf.Name)}

\* the ref string read as a version, and how many components it spells out
desired == ParseTolerant(refSpec)

desiredLevel == (IF Count(refSpec, ".") < 2 THEN Count(refSpec, ".") ELSE 2) + 1

\* the version of an advertised tag
TagVersion(rf) == ParseTolerant(Short(rf.Name))

\* the exclusive upper bound of the range of the ref string: the next patch,
\* minor or major version after it
rangeEnd ==
  LET v == [desired.v EXCEPT !.Pre = <<>>, !.Build = <<>>]
  IN  CASE desiredLevel = 3 -> [v EXCEPT !.Patch = v.Patch + 1]
        [] desiredLevel = 2 -> [v EXCEPT !.Minor = v.Minor + 1, !.Patch = 0]
        [] OTHER -> [v EXCEPT !.Major = v.Major + 1, !.Minor = 0, !.Patch = 0]

\* C1: when the advertisement contains the symbolic HEAD entry, resolving ""
\* and resolving "HEAD" both succeed and return that entry, whatever else is
\* advertised.
C1_HeadAlwaysResolves ==
  (/\ resolved.done
   /\ refSpec \in {<<>>, HEAD}
   /\ \E rf \in AdvertisedSet : rf.Name = HEAD /\ rf.Type = "SymbolicReference")
  => (resolved.ok /\ resolved.ref.Reference.Name = HEAD)

\* C2: with allow_prereleases=false and exact_tag=false, a semver ref without
\* a pre-release suffix never resolves to a tag that has a pre-release
\* component.
C2_PrereleasesExcludedByDefault ==
  (/\ resolved.done /\ resolved.ok
   /\ ~gitOptions.AllowPreReleases /\ ~gitOptions.ResolveExactTag
   /\ desired.ok /\ Len(desired.v.Pre) = 0)
  => Len(resolved.ref.Version.Pre) = 0

\* the tags that survive the filter for the ref string: semver tags below the
\* end of the range, without a pre-release component unless pre-releases are
\* allowed
SurvivingTags ==
  {rf \in AdvertisedTags :
     /\ TagVersion(rf).ok
     /\ (gitOptions.AllowPreReleases \/ Len(TagVersion(rf).v.Pre) = 0)
     /\ ~GE(TagVersion(rf).v, rangeEnd)}

\* a tag spelled vX.Y.Z whose major (and minor, for a ref vX.Y) is the one of
\* the ref string
IsCompleteTagOfRef(rf) ==
  LET short == Short(rf.Name)
      tv == TagVersion(rf)
  IN  /\ IsTag(rf.Name) /\ tv.ok
      /\ HasPrefix(short, <<"v">>) /\ Count(short, ".") = 2 /\ Len(tv.v.Pre) = 0
      /\ tv.v.Major = desired.v.Major
      /\ (desiredLevel = 2 => tv.v.Minor = desired.v.Minor)

\* C3: with exact_tag=false and an advertisement that holds a tag vX.Y.Z, a
\* successful resolve("vX") (resp. resolve("vX.Y")) returns a tag of major X
\* (resp. major.minor X.Y) whose version is the maximum over the surviving
\* tags.
C3_IncompleteSemverPicksLatest ==
  (/\ resolved.done /\ resolved.ok
   /\ ~gitOptions.ResolveExactTag
   /\ desired.ok /\ desiredLevel \in {1, 2}
   /\ \E rf \in AdvertisedTags : IsCompleteTagOfRef(rf))
  => (/\ resolved.ref.IsTag
      /\ resolved.ref.Version.Major = desired.v.Major
      /\ (desiredLevel = 2 => resolved.ref.Version.Minor = desired.v.Minor)
      /\ resolved.ref.Reference \in SurvivingTags
      /\ \A rf \in SurvivingTags : GE(resolved.ref.Version, TagVersion(rf).v))

\* C4: with exact_tag=false a complete ref vX.Y.Z resolves to a tag of version
\* exactly X.Y.Z or fails; it never resolves to a tag of another version.
C4_CompleteSemverIsExact ==
  (/\ resolved.done /\ resolved.ok
   /\ ~gitOptions.ResolveExactTag
   /\ desired.ok /\ desiredLevel = 3 /\ Len(desired.v.Pre) = 0)
  => (/\ resolved.ref.IsTag
      /\ resolved.ref.Version.Major = desired.v.Major
      /\ resolved.ref.Version.Minor = desired.v.Minor
      /\ resolved.ref.Version.Patch = desired.v.Patch)

\* C5: with exact_tag=true a semver ref string resolves if and only if a tag
\* with exactly that short name is advertised, and then to that tag: no range
\* matching, no pre-release filtering, never a branch of that name.
C5_ExactTagResolvesExactly ==
  (resolved.done /\ gitOptions.ResolveExactTag /\ desired.ok)
  => (/\ resolved.ok <=> (\E rf \in AdvertisedTags : Short(rf.Name) = refSpec)
      /\ resolved.ok => (/\ resolved.ref.Reference \in AdvertisedTags
                         /\ resolved.ref.IsTag
                         /\ Short(resolved.ref.Reference.Name) = refSpec))

\* a branch and a tag of the asked name are both advertised, the branch first,
\* and the tag is the one returned
C5_Witness ==
  /\ resolved.done /\ gitOptions.ResolveExactTag /\ desired.ok /\ resolved.ok
  /\ Len(advertised) >= 2
  /\ IsBranch(advertised[1].Name) /\ Short(advertised[1].Name) = refSpec
  /\ resolved.ref.IsTag

\* C6: a ref string that carries a pre-release suffix allows pre-release tags
\* for the request although allow_prereleases is false: an advertised
\* pre-release tag inside the range is a candidate, so the resolution succeeds
\* with a tag at least as recent.
C6_PrereleaseRefAllowsPrereleases ==
  (/\ resolved.done
   /\ ~gitOptions.AllowPreReleases /\ ~gitOptions.ResolveExactTag
   /\ desired.ok /\ Len(desired.v.Pre) > 0)
  => \A rf \in AdvertisedTags :
       (/\ TagVersion(rf).ok /\ Len(TagVersion(rf).v.Pre) > 0
        /\ GE(TagVersion(rf).v, desired.v) /\ ~GE(TagVersion(rf).v, rangeEnd))
       => (resolved.ok /\ GE(resolved.ref.Version, TagVersion(rf).v))

\* ------------------------------------------------------------------------
\* Properties of the Fetcher (checked under Spec)
\* ------------------------------------------------------------------------

\* the step has acted in this fetch
Acted(step) == \E i \in 1..Len(trace) : trace[i] = step

\* the steps that record a failure of the remote, of the child or of a copy
FailedSteps ==
  {"raw failed", "raw copy failed", "raw unsupported", "list failed", "native failed", "fetch failed", "checkout failed", "copy failed"}

\* C7: the allow-pre-releases option of the facade reaches the engine: the
\* git.Options handed to the Repository carry AllowPreReleases as it was set
\* on the Fetcher.
C7_AllowPrereleasesReachesEngine ==
  Acted("NewRepo") => gitOptions.AllowPreReleases = fetchOptions.allowPrereleases

\* C8: when a raw-content URL was synthesized and the raw GET failed, the
\* fetch falls back to the git path: the git path has run when the fetch
\* returns, and the outcome is the one of the git path.
C8_RawFailureFallsBackToGit ==
  (pc = "done" /\ Acted("raw failed"))
  => (Acted("NewRepo") /\ result.err # "could not fetch raw content")

\* C9: against a cooperating remote a successful fetch delivers the content
\* of the file to the sink, written once, whichever path served it.
C9_SameBytesWhicheverPath ==
  (/\ pc = "done" /\ result.returned /\ result.err = ""
   /\ \A i \in 1..Len(trace) : trace[i] \notin FailedSteps)
  => sink = FileContent

\* C10: when the ref resolution or the git fetch fails, the fetch returns an
\* error and the sink has received no bytes.
C10_SinkUntouchedOnFailure ==
  (/\ pc = "done" /\ result.returned
   /\ result.err \in {"could not resolve remote ref", "could not fetch remote ref"})
  => sink = <<>>

\* ------------------------------------------------------------------------
\* Properties of concurrent calls (checked under SpecConcurrent)
\* ------------------------------------------------------------------------

\* C11: concurrent calls on one Fetcher behave as if they had run one after
\* the other: against a cooperating remote every call returns without error
\* and its own sink holds the file it asked for, with or without a backing
\* directory.
C11_ConcurrentCallsAreIndependent ==
  \A c \in Calls :
    calls[c].pc = "done" => (calls[c].err = "" /\ calls[c].sink = FileAt(c))

\* ------------------------------------------------------------------------
\* The locators: a parser builds one from a string, then its methods and the
\* functions that take a locator are called on it
\* ------------------------------------------------------------------------

\* ParseSPDXLocator
ParseSPDXLocator(location, requireVersion) ==
  IF location = <<>> THEN ParseError("empty locator is invalid")
  ELSE Bind(URLParse(location), LAMBDA u :
         IF ~u.ok THEN ParseError("a SPDX locator should be a valid URL")
         ELSE SPDXLocatorFromURL(u.url, requireVersion))

\* ParseGitLocator
ParseGitLocator(location, requireVersion) ==
  IF location = <<>> THEN ParseError("empty locator is invalid")
  ELSE Bind(URLParse(location), LAMBDA u :
         IF ~u.ok THEN ParseError("a git locator should be a valid URL")
         ELSE GitLocatorFromURL(u.url, requireVersion))

InitLocator ==
  /\ advertised = <<>>
  /\ refSpec = <<>>
  /\ gitOptions = toInternalGitOptions(NoFetchOptions)
  /\ resolved = NotResolved
  /\ fetchOptions = NoFetchOptions
  /\ locator = NoLocator
  /\ pc = "locator"
  /\ sink = <<>>
  /\ result = NotReturned
  /\ trace = <<>>
  /\ BackingIdle
  /\ ClonerIdle
  /\ native = NoNative
  /\ input \in InputURLs \cup {<<>>}
  /\ parsed = NotParsed
  /\ held = NoLocatorObject

\* what the calls on a locator leave alone
locatorFrame ==
  <<advertised, refSpec, gitOptions, resolved, fetchOptions, locator, pc, sink, result,
    backing, disk, calls, cloner, input, native>>

\* the outcome of a parser is kept, and the locator it returned is held
Hold(by, requireVersion, p) ==
  /\ parsed' = [done |-> TRUE, by |-> by, requireVersion |-> requireVersion,
                ok |-> p.ok, err |-> p.err, panic |-> p.panic, locator |-> p.locator]
  /\ held' = p.locator
  /\ UNCHANGED <<locatorFrame, trace>>

\* a call on the held locator is possible
Callable ==
  /\ pc = "locator"
  /\ parsed.ok
  /\ Len(trace) < MaxOps
  /\ IF Len(trace) = 0 THEN TRUE ELSE ~trace[Len(trace)].panic

CallParseSPDXLocator ==
  /\ pc = "locator" /\ ~parsed.done
  /\ \E requireVersion \in BOOLEAN :
     \E p \in {ParseSPDXLocator(input, requireVersion)} : Hold("spdx", requireVersion, p)

CallParseGitLocator ==
  /\ pc = "locator" /\ ~parsed.done
  /\ \E requireVersion \in BOOLEAN :
     \E p \in {ParseGitLocator(input, requireVersion)} : Hold("git", requireVersion, p)

\* SPDXLocator.String, GitLocator.String
CallString ==
  /\ Callable
  /\ trace' = Append(trace, [op |-> "String", out |-> LocatorString(held), panic |-> FALSE])
  /\ held' = IF held.kind = "git" THEN [held EXCEPT !.repo = StringURL(held)] ELSE held
  /\ UNCHANGED <<locatorFrame, parsed>>

\* giturl.Raw
CallRaw ==
  /\ Callable
  /\ \E r \in {LocatorRaw(held)} :
       /\ trace' = Append(trace, [op |-> "Raw",
                                   out |-> IF r.ok THEN URLString(r.url) ELSE <<>>,
                                   panic |-> r.panic])
       /\ held' = r.locator
  /\ UNCHANGED <<locatorFrame, parsed>>

\* the calls that Fetcher.FetchLocator makes on its locator: RepoURL() for
\* download.Supported, giturl.Raw, then RepoURL() for git.NewRepo; out is the
\* URL handed to git.NewRepo
CallFetchLocator ==
  /\ Callable
  /\ \E r \in {IF Supported(LocatorRepoURL(held)) THEN LocatorRaw(held)
                 ELSE [panic |-> FALSE, ok |-> FALSE, url |-> NoURL, locator |-> held]} :
       /\ trace' = Append(trace, [op |-> "FetchLocator",
                                   out |-> IF r.panic THEN <<>> ELSE URLString(LocatorRepoURL(r.locator)),
                                   panic |-> r.panic])
       /\ held' = r.locator
  /\ UNCHANGED <<locatorFrame, parsed>>

NextLocator ==
  \/ CallParseSPDXLocator
  \/ CallParseGitLocator
  \/ CallString
  \/ CallRaw
  \/ CallFetchLocator

SpecLocator == InitLocator /\ [][NextLocator]_vars

\* ------------------------------------------------------------------------
\* The handles that may have a backing directory: a Fetcher running its
\* calls, or a Cloner
\* ------------------------------------------------------------------------

SpecBacking ==
  /\ InitConcurrent \/ InitCloner
  /\ [][NextConcurrent \/ NextCloner]_vars

\* ------------------------------------------------------------------------
\* Properties of the public methods (checked under SpecAPI)
\* ------------------------------------------------------------------------

C13_NoPanicOnInput ==
  pc # "cloner" => ~result.panic

\* ------------------------------------------------------------------------
\* Properties of the locators (checked under SpecLocator)
\* ------------------------------------------------------------------------

\* C14: the SPDX parser splits the URL path on the first '@': the repo path
\* is the part before it and the version the part after it, so the path of
\* the repo URL of a parsed SPDX locator never contains '@'.
C14_SPDXRepoPathHasNoVersion ==
  (parsed.done /\ parsed.by = "spdx" /\ parsed.ok) =>
    LET parts == SplitN2(URLParse(input).url.Path, "@")
    IN /\ LocatorRepoURL(parsed.locator).Path = parts[1]
       /\ LocatorVersion(parsed.locator) = parts[2]
       /\ ~Contains(LocatorRepoURL(parsed.locator).Path, <<"@">>)

\* C15: for every URL that the SPDX parser accepts, the String() of the
\* locator is accepted by the SPDX parser too and gives a locator with the
\* same repo URL, version and sub-path.
C15_SPDXRoundTrip ==
  (parsed.done /\ parsed.by = "spdx" /\ parsed.ok) =>
    LET again == ParseSPDXLocator(LocatorString(parsed.locator), parsed.requireVersion)
    IN /\ again.ok
       /\ LocatorRepoURL(again.locator) = LocatorRepoURL(parsed.locator)
       /\ LocatorVersion(again.locator) = LocatorVersion(parsed.locator)
       /\ LocatorPath(again.locator) = LocatorPath(parsed.locator)

\* C16: with the require-version option, GitLocatorFromURL rejects a provider
\* URL exactly when the URL carries no version; a provider URL with a version
\* is accepted and parsed.
C16_RequiredVersionOnProviderURL ==
  (/\ parsed.done /\ parsed.by = "git" /\ parsed.requireVersion
   /\ URLParse(input).ok
   /\ githubParse(URLParse(input).url).ok) =>
    (parsed.ok <=> githubParse(URLParse(input).url).version # <<>>)

\* C20: a locator is immutable after the parse: no sequence of calls of
\* String(), giturl.Raw or Fetcher.FetchLocator changes what RepoURL(),
\* Version() and Path() return; String() gives the same string every time and
\* the git path gets the repo URL of the parse.
C20_LocatorImmutableAfterParse ==
  parsed.ok =>
    /\ LocatorRepoURL(held) = LocatorRepoURL(parsed.locator)
    /\ LocatorVersion(held) = LocatorVersion(parsed.locator)
    /\ LocatorPath(held) = LocatorPath(parsed.locator)
    /\ \A i \in 1..Len(trace) :
         /\ trace[i].op = "String" => trace[i].out = LocatorString(parsed.locator)
         /\ (trace[i].op = "FetchLocator" /\ ~trace[i].panic) =>
              trace[i].out = URLString(LocatorRepoURL(parsed.locator))

\* ------------------------------------------------------------------------
\* Properties of the Cloner (checked under SpecCloner and SpecBacking)
\* ------------------------------------------------------------------------

\* C17: after Clone, CloneURL or CloneLocator has returned without error, and
\* until Close, FS() returns a non-nil view and a fetch from the clone does
\* not fail with 'no clone available'.
C17_CloneExposesTree ==
  LET cloned == \E i \in 1..Len(trace) :
                  /\ trace[i].op \in {"Clone", "CloneLocator"}
                  /\ trace[i].err = ""
                  /\ \A j \in (i + 1)..Len(trace) : trace[j].op # "Close"
  IN (pc = "cloner" /\ cloned) =>
       /\ cloner.clonedFS # "nil"
       /\ trace[Len(trace)].op \in {"FetchFromClone", "FetchLocatorFromClone"} =>
            result.err # "no clone available"

\* C18: after Close, FS() returns nil and a fetch from the clone fails with
\* 'no clone available' until the next successful Clone; after that Clone the
\* Cloner exposes a tree again.
C18_CloseResetsCloner ==
  LET clonedAt(i) == trace[i].op \in {"Clone", "CloneLocator"} /\ trace[i].err = ""
      closedAt(i) == trace[i].op = "Close"
  IN pc = "cloner" =>
       \A i \in 1..Len(trace) :
         closedAt(i) =>
           IF \E j \in (i + 1)..Len(trace) : clonedAt(j)
           THEN (\A k \in (i + 1)..Len(trace) : ~closedAt(k)) => cloner.clonedFS # "nil"
           ELSE /\ cloner.clonedFS = "nil"
                /\ (/\ trace[Len(trace)].op \in {"FetchFromClone", "FetchLocatorFromClone"}
                    /\ result.returned) =>
                     result.err \in {"no clone available", "expected a valid URL",
                                      "the provided URL is not a SPDX locator or a recognized git URL"}

\* C19: the handle removes the directory that it created itself when it is
\* closed, and never removes a directory that the caller supplied.
C19_BackingDirOwnership ==
  /\ ~disk[callerDir].removed
  /\ (/\ pc = "cloner"
      /\ backing = withGitBackingDir(TRUE, "")
      /\ Len(trace) > 0
      /\ trace[Len(trace)].op = "Close") => ~disk[tempDir].exists

\* ------------------------------------------------------------------------
\* Further properties of the resolver (checked under SpecResolve)
\* ------------------------------------------------------------------------

\* C21: for a fixed ref string and fixed options, pickRef returns the same
\* result (the same selected reference, or the same failure) for every
\* ordering of the same advertised references.
C21_SelectionIgnoresAdvertisementOrder ==
  resolved.done =>
    \A p \in Permutations(1..Len(advertised)) :
      \A other \in {pickRef([i \in 1..Len(advertised) |-> advertised[p[i]]], refSpec, gitOptions)} :
        /\ other.ok = resolved.ok
        /\ other.err = resolved.err
        /\ other.ref = resolved.ref

\* C22: for every advertised set and every ref string whose resolution
\* succeeds, resolving the short name of the result with exact_tag=true
\* against the same set succeeds and returns the same reference.
C22_ResolutionIsIdempotent ==
  (resolved.done /\ resolved.ok) =>
    \A again \in {pickRef(advertised, resolved.ref.ShortName,
                          [gitOptions EXCEPT !.ResolveExactTag = TRUE])} :
      /\ again.ok
      /\ again.ref = resolved.ref

\* an incomplete version was resolved to the latest of several tags, whose
\* short name is not the ref string
C22_Witness ==
  /\ resolved.done /\ resolved.ok
  /\ ~gitOptions.ResolveExactTag
  /\ desired.ok /\ desiredLevel = 2
  /\ resolved.ref.ShortName # refSpec
  /\ Len(advertised) = 3
  /\ advertised[1] # resolved.ref.Reference
  /\ \A i \in 1..3 : IsTag(advertised[i].Name) /\ TagVersion(advertised[i]).ok

\* C23: with exact_tag=false and a ref string that does not parse as semver,
\* pickRef fails with the ambiguous-reference error and selects nothing when
\* more than one advertised reference survives the filter, and fails with the
\* no-matching-reference error when none survives.
C23_AmbiguousReferenceFails ==
  (resolved.done /\ ~gitOptions.ResolveExactTag /\ ~desired.ok) =>
    LET survivors ==
          {rf \in AdvertisedSet :
             /\ rf.Type \in {"HashReference", "SymbolicReference"}
             /\ IsBranch(rf.Name) \/ IsTag(rf.Name) \/ rf.Name = HEAD
             /\ IF refSpec \in {<<>>, HEAD} THEN rf.Name = HEAD ELSE Short(rf.Name) = refSpec}
    IN  /\ Cardinality(survivors) > 1 =>
             (/\ ~resolved.ok
              /\ resolved.err = "ref spec resolved ambiguously"
              /\ resolved.ref = NoRef)
        /\ Cardinality(survivors) = 0 =>
             (/\ ~resolved.ok
              /\ resolved.err = "could not resolve any remote reference"
              /\ resolved.ref = NoRef)

\* a branch and a tag of the asked name are advertised and the resolution
\* failed as ambiguous
C23_Witness ==
  /\ resolved.done /\ ~gitOptions.ResolveExactTag /\ ~desired.ok
  /\ \E i, j \in 1..Len(advertised) :
       /\ IsBranch(advertised[i].Name) /\ Short(advertised[i].Name) = refSpec
       /\ IsTag(advertised[j].Name) /\ Short(advertised[j].Name) = refSpec
  /\ ~resolved.ok
  /\ resolved.err = "ref spec resolved ambiguously"


\* ------------------------------------------------------------------------
\* Repository.nativeExtractGitArchive step by step: the caller, the git
\* child started by exec.CommandContext, and the two pipes between them
\* ------------------------------------------------------------------------

\* the chunks a pipe holds before a write to it blocks
PipeCap == 1

\* the most chunks the child has to write to one of its outputs
MaxOut == 3

\* what a run of nativeExtractGitArchive leaves alone
nativeFrame ==
  <<advertised, refSpec, gitOptions, resolved, fetchVars, backing, disk, calls, cloner,
    input, parsed, held>>

InitNative ==
  /\ advertised = <<>>
  /\ refSpec = <<>>
  /\ gitOptions = toInternalGitOptions(NoFetchOptions)
  /\ resolved = NotResolved
  /\ fetchOptions = NoFetchOptions
  /\ locator = NoLocator
  /\ pc = "native"
  /\ sink = <<>>
  /\ result = NotReturned
  /\ trace = <<>>
  /\ BackingIdle
  /\ ClonerIdle
  /\ LocatorIdle
  /\ native = [NoNative EXCEPT !.pc = "start"]

\* cmd.StdoutPipe, cmd.StderrPipe and cmd.Start: an error of one of them is
\* returned before the deferred function is installed (Start fails when the
\* context is already done); otherwise the child runs, with some output to
\* write to stdout and to stderr and an exit status to report
CmdStart ==
  /\ native.pc = "start"
  /\ \/ native' = [native EXCEPT !.pc = "returned", !.err = {"start"}]
     \/ /\ ~native.cancelled
        /\ \E o \in 0..MaxOut, e \in 0..MaxOut, s \in {"ok", "fail"} :
             native' = [native EXCEPT !.pc = "gzip", !.child = "running", !.status = s,
                                      !.out = o, !.errout = e, !.started = @ + 1]
  /\ UNCHANGED nativeFrame

\* gzip.NewReader(stdout) reads the gzip header from the pipe: it waits for
\* data or for the end of the stream. Its error is assigned to the named
\* result and returned, which runs the deferred function
GzipNewReader ==
  /\ native.pc = "gzip"
  /\ \/ /\ native.stdout > 0
        /\ \E header \in BOOLEAN :
             native' = [native EXCEPT !.stdout = @ - 1,
                                      !.err = IF header THEN {} ELSE {"gzip"},
                                      !.pc = IF header THEN "loop" ELSE "stderr"]
     \/ /\ native.stdout = 0
        /\ native.child # "running"
        /\ native' = [native EXCEPT !.err = {"gzip"}, !.pc = "stderr"]
  /\ UNCHANGED nativeFrame

\* one turn of the tar loop: tarReader.Next and io.Copy(w, tarReader) read a
\* chunk from the pipe; a read error or a write error of the sink breaks the
\* loop, and so does the end of the stream (io.EOF, or an unexpected end when
\* the child stopped before it wrote everything). The err of the loop is
\* declared inside the loop: the err returned after the loop is the named
\* result, which is nil there
TarLoop ==
  /\ native.pc = "loop"
  /\ \/ /\ native.stdout > 0
        /\ \E read \in {"ok", "tar", "sink"} :
             native' = [native EXCEPT !.stdout = @ - 1,
                                      !.sunk = IF read = "ok" THEN @ + 1 ELSE @,
                                      !.loopErr = IF read = "ok" THEN "" ELSE read,
                                      !.pc = IF read = "ok" THEN "loop" ELSE "stderr"]
     \/ /\ native.stdout = 0
        /\ native.child # "running"
        /\ native' = [native EXCEPT !.loopErr = IF native.out > 0 THEN "tar" ELSE "",
                                    !.pc = "stderr"]
  /\ UNCHANGED nativeFrame

\* the deferred function. io.CopyN(&b, stderr, maxErrSize) and
\* io.Copy(io.Discard, stderr) read stderr to its end; stdout is read to its
\* end only when the named result is not nil; cmd.Wait then waits for the
\* child and reaps it, and its error is joined with the named result and with
\* the captured stderr text. cmd.Wait reports the exit status of the child, or
\* the error of the context when the child was signalled after its exit
Deferred ==
  /\ \/ /\ native.pc = "stderr"
        /\ \/ /\ native.stderr > 0
              /\ native' = [native EXCEPT !.stderr = @ - 1, !.b = TRUE]
           \/ /\ native.stderr = 0
              /\ native.child # "running"
              /\ native' = [native EXCEPT !.pc = IF native.err # {} THEN "stdout" ELSE "wait"]
     \/ /\ native.pc = "stdout"
        /\ \/ /\ native.stdout > 0
              /\ native' = [native EXCEPT !.stdout = @ - 1]
           \/ /\ native.stdout = 0
              /\ native.child # "running"
              /\ native' = [native EXCEPT !.pc = "wait"]
     \/ /\ native.pc = "wait"
        /\ native.child \in {"exited", "killed"}
        /\ \E errCommand \in {IF native.child = "killed" THEN {"signal: killed"}
                              ELSE IF native.status = "fail" THEN {"exit status 1"}
                              ELSE IF native.cancelled THEN {"context canceled"}
                              ELSE {}} :
             native' = [native EXCEPT
                          !.child = "reaped",
                          !.err = IF native.b /\ (native.err \cup errCommand) # {}
                                  THEN native.err \cup errCommand \cup {"stderr"}
                                  ELSE native.err \cup errCommand,
                          !.pc = "returned"]
  /\ UNCHANGED nativeFrame

\* the git child (git archive --format=tgz --remote=...): it writes a chunk to
\* stdout or to stderr when the pipe has room for it, and exits when it has
\* written everything, or before that when it fails; until cmd.Wait it stays
\* as a zombie
GitArchive ==
  /\ native.child = "running"
  /\ \/ /\ native.out > 0
        /\ native.stdout < PipeCap
        /\ native' = [native EXCEPT !.out = @ - 1, !.stdout = @ + 1]
     \/ /\ native.errout > 0
        /\ native.stderr < PipeCap
        /\ native' = [native EXCEPT !.errout = @ - 1, !.stderr = @ + 1]
     \/ /\ (native.out = 0 /\ native.errout = 0) \/ native.status = "fail"
        /\ native' = [native EXCEPT !.child = "exited"]
  /\ UNCHANGED nativeFrame

\* the caller cancels ctx during the call: exec.CommandContext kills the
\* child when it runs
Cancel ==
  /\ native.pc \notin {"idle", "returned"}
  /\ ~native.cancelled
  /\ native' = [native EXCEPT !.cancelled = TRUE,
                              !.child = IF @ = "running" THEN "killed" ELSE @]
  /\ UNCHANGED nativeFrame

NextNative ==
  \/ CmdStart
  \/ GzipNewReader
  \/ TarLoop
  \/ Deferred
  \/ GitArchive
  \/ Cancel

\* the caller and the child both run when they can; nothing obliges the
\* context to be cancelled
SpecNative ==
  /\ InitNative
  /\ [][NextNative]_vars
  /\ WF_vars(CmdStart \/ GzipNewReader \/ TarLoop \/ Deferred)
  /\ WF_vars(GitArchive)

\* ------------------------------------------------------------------------
\* Properties of the native archive path (checked under SpecNative)
\* ------------------------------------------------------------------------

\* C24: when the context is cancelled during a run that started the git
\* child, the run returns an error, the child was killed or had exited and
\* was waited on, and both of its pipes were read to their end.
C24_CancelledRunDrainsAndReaps ==
  (native.pc = "returned" /\ native.cancelled /\ native.started > 0) =>
    /\ native.err # {}
    /\ native.child = "reaped"
    /\ native.stdout = 0
    /\ native.stderr = 0

\* C27: every run that started the git child eventually returns, having
\* waited on the child.
C27_ChildAlwaysReaped ==
  (native.child = "running") ~> (native.pc = "returned" /\ native.child = "reaped")

\* C28: a read error of the tar stream or a write error of the sink is part
\* of the returned error, with the captured stderr text when there is some;
\* nil is returned only when the loop met no error and the child succeeded.
C28_LoopErrorIsReturned ==
  (native.pc = "returned" /\ native.started > 0) =>
    /\ native.loopErr # "" => /\ native.loopErr \in native.err
                              /\ native.b => "stderr" \in native.err
    /\ native.err = {} => native.loopErr = "" /\ native.status = "ok"


\* ------------------------------------------------------------------------
\* Further properties of a fetch (checked under Spec)
\* ------------------------------------------------------------------------

\* C25: once the capabilities of the remote are known, the fetch goes to the
\* native archive exactly when autodetection was not disabled on the
\* Fetcher, the scheme of the repository URL is git or ssh, and git is on
\* PATH; otherwise it goes to the in-process fetch.
C25_NativeIffAutoDetectTransportAndGit ==
  (pc \in {"native", "fetch"}) =>
    /\ trace[Len(trace)] \in {"capabilities", "capabilities, git on PATH"}
    /\ pc = "native" <=>
         /\ ~fetchOptions.gitSkipAutodetect
         /\ RepoURL(locator).Scheme \in {<<"g", "i", "t">>, sSSH}
         /\ trace[Len(trace)] = "capabilities, git on PATH"

\* the native archive was chosen for an ssh repository
C25_Witness ==
  /\ pc = "native"
  /\ locator.Scheme = sSSH
  /\ ~fetchOptions.gitSkipAutodetect
  /\ trace[Len(trace)] = "capabilities, git on PATH"


\* C26: the sink holds a byte only after the references were advertised and
\* one was selected, the hash was then fetched, and the checkout was then
\* done.
C26_SinkWrittenAfterCheckout ==
  sink # <<>> =>
    \E i, j, k \in 1..Len(trace) :
      /\ i < j /\ j < k
      /\ trace[i] = "selectRef"
      /\ trace[j] = "fetch"
      /\ trace[k] = "checkout"


\* C29: AutoDetect on the repository URL of a fetch reports the first
\* provider, in the order github, gitlab, azure, bitbucket, gitea, whose name
\* is part of the lowercased host, and unknown with an error for a host that
\* matches none; it returns for every host, and so does the fetch.
C29_AutoDetectReportsFirstProvider ==
  (pc \notin {"FetchLocator", "raw"} /\ trace # <<>> /\ Supported(RepoURL(locator))) =>
    \A d \in {AutoDetect(RepoURL(locator))} :
    \A host \in {ToLower(RepoURL(locator).Host)} :
      /\ ~d.panic
      /\ ~result.panic
      /\ d.provider = (IF Contains(host, sGithub) THEN "github"
                       ELSE IF Contains(host, sGitlab) THEN "gitlab"
                       ELSE IF Contains(host, sAzure) THEN "azure"
                       ELSE IF Contains(host, sBitbucket) THEN "bitbucket"
                       ELSE IF Contains(host, sGitea) THEN "gitea"
                       ELSE "unknown")
      /\ d.provider = "unknown" => ~d.ok

\* C30: for a locator whose provider is detected, Raw returns a raw-content
\* URL exactly when the scheme without its git+ prefix is https, the port is
\* unspecified or 443, the path names a file, and, on github, the host is
\* github.com or raw.githubusercontent.com.
C30_RawPreconditions ==
  (pc \notin {"FetchLocator", "raw"} /\ trace # <<>> /\ Supported(RepoURL(locator))) =>
    \A d \in {AutoDetect(RepoURL(locator))} :
    \A u \in {RepoURL(locator)} :
      (~d.panic /\ d.ok) =>
        (Raw(locator).ok <=>
           /\ TrimPrefix(u.Scheme, sGitPlus) = sHTTPS
           /\ Port(u.Host) \in {<<>>, <<"4", "4", "3">>}
           /\ TrimSlashes(locator.Path) # <<>>
           /\ d.provider = "github" => Hostname(u.Host) \in {defaultHost, rawHost})

====
